---------------------------- MODULE Spec2Model ----------------------------
(***************************************************************************)
(* A model of the FCA container codec: the encoder (fca_encode.py), the    *)
(* decoder (fca_decode.py) with its identity lookup and output naming.     *)
(*                                                                         *)
(* Bytes are naturals 0..255, byte strings are sequences of bytes, text    *)
(* strings are sequences of one-character strings, and a path is a         *)
(* sequence of path components (each a text string).                       *)
(***************************************************************************)
EXTENDS Integers, Sequences, FiniteSets, TLC

VARIABLES
    tree,            \* input file system: path -> content of every regular file
    input_dirs,      \* the input_dirs argument of the encode entry point
    input_files,     \* encode_fca_from_sources' input_files argument
    entry,           \* the encode entry point called, or "none"
    archive,         \* content of the archive file, or NoFile
    enc,             \* encode_fca: "idle", "done", "error" (ValueError), "type_error"
    db_file,         \* the identity database file on disk
    use_pro_names,   \* decode_fca's use_pro_names argument
    database_file,   \* decode_fca's database_file argument (TRUE: a path is given)
    dec,             \* decode_fca: "idle", "loop", "done", "error"
    err,             \* the exception decode_fca raised, or "none"
    pos,             \* read position of f in the archive (0-based)
    version,         \* the version byte read from the global header
    file_count,      \* decode_fca's file_count
    out_files,       \* output directory: path -> content of every file
    out_dirs,        \* output directory: the subdirectories that exist
    out_before,      \* out_files as it was when decode_fca was called
    extracted,       \* per extracted record: header fields, content and path written
    warnings,        \* 1-based record numbers a reserved-byte warning was printed for
    db_cache,        \* _AMIIBO_DATABASE
    db_attempted,    \* _DATABASE_LOAD_ATTEMPTED
    content,         \* argument of the pure function under check
    args,            \* its other arguments
    result           \* its result, or NotRun

vars == <<tree, input_dirs, input_files, entry, archive, enc, db_file, use_pro_names,
          database_file, dec, err, pos, version, file_count, out_files, out_dirs,
          out_before, extracted, warnings, db_cache, db_attempted, content, args, result>>

-----------------------------------------------------------------------------
(* Bounds of the model *)

\* most regular files in the input tree
MaxFiles == 2
\* most records in a hand-made archive
MaxRecords == 2
\* a hand-made archive's last record is cut at every length up to this one
TruncWindow == 12
\* the calls of the database functions made in one process
MaxCalls == 3

-----------------------------------------------------------------------------
(* Values *)

\* no file at the path: told apart from every byte string, the empty one included
NoFile == <<-1>>
\* Python's None where a text string may stand
None == <<"None">>
\* no pure function has been applied
NotRun == [fn |-> "none"]
\* no further arguments
NoArgs == [fn |-> "none"]

FILE_TYPE_UNKNOWN == 0
FILE_TYPE_AMIIBO_V2 == 1
FILE_TYPE_AMIIBO_V3 == 2
FILE_TYPE_SKYLANDER == 3
FILE_TYPE_DISNEY_INFINITY == 4
FILE_TYPE_LEGO_DIMENSIONS == 5

-----------------------------------------------------------------------------
(* Sequences, bytes and text *)

RECURSIVE Concat(_)
\* the concatenation of a sequence of sequences
Concat(ss) == IF ss = <<>> THEN <<>> ELSE Head(ss) \o Concat(Tail(ss))

\* the slice s[a:b] for 0 <= a <= b (both clipped to the length)
Slice(s, a, b) ==
    LET hi == IF b > Len(s) THEN Len(s) ELSE b
    IN  IF a >= hi THEN <<>> ELSE SubSeq(s, a + 1, hi)

\* b'\x00' * n
Zeros(n) == [i \in 1..n |-> 0]

\* s with the bytes p written over it from 0-based offset off
Patch(s, off, p) ==
    [i \in 1..Len(s) |-> IF i > off /\ i <= off + Len(p) THEN p[i - off] ELSE s[i]]

\* struct.pack('>I', n): a big-endian u32
PackU32(n) == << (n \div 16777216) % 256, (n \div 65536) % 256, (n \div 256) % 256, n % 256 >>

\* struct.pack('>H', n): a big-endian u16
PackU16(n) == << (n \div 256) % 256, n % 256 >>

\* struct.unpack('>I', b)[0]
UnpackU32(b) == ((b[1] * 256 + b[2]) * 256 + b[3]) * 256 + b[4]

\* struct.unpack('>H', b)[0]
UnpackU16(b) == b[1] * 256 + b[2]

\* the printable ASCII characters, code points 32..126 (the apostrophe and the
\* grave accent, which no name of the model uses, are spelled out)
Ascii ==
    << " ", "!", "\"", "#", "$", "%", "&", "apostrophe", "(", ")", "*", "+", ",", "-", ".", "/",
       "0", "1", "2", "3", "4", "5", "6", "7", "8", "9", ":", ";", "<", "=", ">", "?",
       "@", "A", "B", "C", "D", "E", "F", "G", "H", "I", "J", "K", "L", "M", "N", "O",
       "P", "Q", "R", "S", "T", "U", "V", "W", "X", "Y", "Z", "[", "\\", "]", "^", "_",
       "grave", "a", "b", "c", "d", "e", "f", "g", "h", "i", "j", "k", "l", "m", "n", "o",
       "p", "q", "r", "s", "t", "u", "v", "w", "x", "y", "z", "{", "|", "}", "~" >>

\* ord(c)
Ord(c) == 31 + CHOOSE i \in 1..Len(Ascii) : Ascii[i] = c

HexDigits == <<"0", "1", "2", "3", "4", "5", "6", "7", "8", "9", "a", "b", "c", "d", "e", "f">>

RECURSIVE Hex(_)
\* bytes.hex(): two lowercase hexadecimal digits per byte
Hex(b) ==
    IF b = <<>> THEN <<>>
    ELSE <<HexDigits[(Head(b) \div 16) + 1], HexDigits[(Head(b) % 16) + 1]>> \o Hex(Tail(b))

RECURSIVE StrLess(_, _)
\* s < t on Python strings: by code point, a proper prefix first
StrLess(s, t) ==
    IF t = <<>> THEN FALSE
    ELSE IF s = <<>> THEN TRUE
    ELSE IF Head(s) # Head(t) THEN Ord(Head(s)) < Ord(Head(t))
    ELSE StrLess(Tail(s), Tail(t))

RECURSIVE PathLess(_, _)
\* Path.__lt__: the parts compared as lists of strings
PathLess(p, q) ==
    IF q = <<>> THEN FALSE
    ELSE IF p = <<>> THEN TRUE
    ELSE IF Head(p) # Head(q) THEN StrLess(Head(p), Head(q))
    ELSE PathLess(Tail(p), Tail(q))

RECURSIVE SumBytes(_, _, _)
\* the sum of b[lo..hi], by halves
SumBytes(b, lo, hi) ==
    IF lo > hi THEN 0
    ELSE IF lo = hi THEN b[lo]
    ELSE LET mid == (lo + hi) \div 2
         IN  SumBytes(b, lo, mid) + SumBytes(b, mid + 1, hi)

\* hashlib.md5(content).hexdigest(): lowercase hexadecimal text that depends on
\* the content alone.  A one-byte checksum stands in for the 16-byte digest, so
\* distinct contents may share a name, which MD5 does not exclude either.
Md5Hex(c) == Hex(<<(Len(c) + SumBytes(c, 1, Len(c))) % 256>>)

RECURSIVE Decimal(_)
\* str(n) for n >= 0
Decimal(n) ==
    IF n < 10 THEN <<HexDigits[n + 1]>>
    ELSE Decimal(n \div 10) \o <<HexDigits[(n % 10) + 1]>>

-----------------------------------------------------------------------------
(* fca_encode.py: the classifier *)

\* the NTAG215 capability container F1 10 FF EE
NtagCC == <<241, 16, 255, 238>>

\* a variant that tries the amiibo v3 rule before the Skylander rule
detect_file_type_v3_first(c) ==
    LET size == Len(c)
    IN  IF size = 180 /\ c[1] = 4 /\ c[8] = 128 /\ Slice(c, 8, 144) = Zeros(136)
        THEN FILE_TYPE_LEGO_DIMENSIONS
        ELSE IF size = 320 /\ c[1] = 4 /\ Slice(c, 7, 11) = <<137, 68, 0, 194>>
                /\ Slice(c, 54, 57) = <<23, 135, 142>>
        THEN FILE_TYPE_DISNEY_INFINITY
        ELSE IF size = 2048 /\ Slice(c, 12, 16) = NtagCC
        THEN FILE_TYPE_AMIIBO_V3
        ELSE IF size \in {1024, 2048} /\ Slice(c, 5, 8) = <<129, 1, 15>>
                /\ Slice(c, 54, 58) = <<15, 15, 15, 105>>
        THEN FILE_TYPE_SKYLANDER
        ELSE IF size \in {532, 540, 572} /\ Slice(c, 12, 16) = NtagCC
        THEN FILE_TYPE_AMIIBO_V2
        ELSE FILE_TYPE_UNKNOWN

detect_file_type(c) ==
    LET size == Len(c)
    IN  IF size = 180 /\ c[1] = 4 /\ c[8] = 128 /\ Slice(c, 8, 144) = Zeros(136)
        THEN FILE_TYPE_LEGO_DIMENSIONS
        ELSE IF size = 320 /\ c[1] = 4 /\ Slice(c, 7, 11) = <<137, 68, 0, 194>>
                /\ Slice(c, 54, 57) = <<23, 135, 142>>
        THEN FILE_TYPE_DISNEY_INFINITY
        ELSE IF size \in {1024, 2048} /\ Slice(c, 5, 8) = <<129, 1, 15>>
                /\ Slice(c, 54, 58) = <<15, 15, 15, 105>>
        THEN FILE_TYPE_SKYLANDER
        ELSE IF size \in {532, 540, 572}
        THEN (IF Slice(c, 12, 16) = NtagCC THEN FILE_TYPE_AMIIBO_V2 ELSE FILE_TYPE_UNKNOWN)
        ELSE IF size = 2048
        THEN (IF Slice(c, 12, 16) = NtagCC THEN FILE_TYPE_AMIIBO_V3 ELSE FILE_TYPE_UNKNOWN)
        ELSE FILE_TYPE_UNKNOWN

-----------------------------------------------------------------------------
(* fca_decode.py: identity key, database lookup, names *)

\* a variant that asks for a nonzero byte anywhere in head or tail
extract_amiibo_id_any(c) ==
    IF Len(c) < 92 THEN [head |-> None, tail |-> None]
    ELSE IF \E i \in 85..92 : c[i] # 0
    THEN [head |-> Hex(Slice(c, 84, 88)), tail |-> Hex(Slice(c, 88, 92))]
    ELSE [head |-> None, tail |-> None]

\* (head_id, tail_id), or (None, None)
extract_amiibo_id(c) ==
    IF Len(c) < 92 THEN [head |-> None, tail |-> None]
    ELSE LET head_bytes == Slice(c, 84, 88)
             tail_bytes == Slice(c, 88, 92)
         IN  IF \E i \in 1..Len(tail_bytes) : tail_bytes[i] # 0
             THEN [head |-> Hex(head_bytes), tail |-> Hex(tail_bytes)]
             ELSE [head |-> None, tail |-> None]

\* dict.get(k, default) on a JSON object
Get(obj, k, default) == IF k \in DOMAIN obj THEN obj[k] ELSE default

\* the truth value of a string or None
Truthy(s) == s # None /\ s # <<>>

\* a parsed JSON value: None, an object with its fields, or an array with its
\* items
JsonNone == [kind |-> "None"]
JsonObject(f) == [kind |-> "object", fields |-> f]
JsonArray(items) == [kind |-> "array", items |-> items]

\* the truth value of what load_amiibo_database returned
DbTruthy(db) ==
    CASE db.kind = "object" -> DOMAIN db.fields # {}
      [] db.kind = "array" -> db.items # <<>>
      [] OTHER -> FALSE

Unknown == <<"U", "n", "k", "n", "o", "w", "n">>
NotFound ==
    [series |-> None, type |-> None, name |-> None, method |-> <<"not_found">>,
     exc |-> "none"]

\* a variant with one tier: the first entry whose tail is the key's tail
lookup_amiibo_data_tailOnly(head_id, tail_id, db) ==
    IF ~Truthy(head_id) \/ ~Truthy(tail_id)
    THEN [series |-> None, type |-> None, name |-> None, method |-> None, exc |-> "none"]
    ELSE IF ~DbTruthy(db)
    THEN NotFound
    ELSE IF db.kind # "object"
    THEN [NotFound EXCEPT !.exc = "AttributeError"]
    ELSE LET amiibo_list == Get(db.fields, "amiibo", <<>>)
             tails == {i \in 1..Len(amiibo_list) :
                        Get(amiibo_list[i], "tail", None) = tail_id}
             i == CHOOSE i \in tails : \A j \in tails : i <= j
         IN  IF tails = {} THEN NotFound
             ELSE [series |-> Get(amiibo_list[i], "amiiboSeries", Unknown),
                   type |-> Get(amiibo_list[i], "type", Unknown),
                   name |-> Get(amiibo_list[i], "name", Unknown),
                   method |-> <<"database_tail">>, exc |-> "none"]

\* a variant whose missing fields come back as None
lookup_amiibo_data_noDefault(head_id, tail_id, db) ==
    IF ~Truthy(head_id) \/ ~Truthy(tail_id)
    THEN [series |-> None, type |-> None, name |-> None, method |-> None, exc |-> "none"]
    ELSE IF ~DbTruthy(db)
    THEN NotFound
    ELSE IF db.kind # "object"
    THEN [NotFound EXCEPT !.exc = "AttributeError"]
    ELSE LET amiibo_list == Get(db.fields, "amiibo", <<>>)
             both == {i \in 1..Len(amiibo_list) :
                        /\ Get(amiibo_list[i], "head", None) = head_id
                        /\ Get(amiibo_list[i], "tail", None) = tail_id}
             tails == {i \in 1..Len(amiibo_list) :
                        Get(amiibo_list[i], "tail", None) = tail_id}
             First(S) == CHOOSE i \in S : \A j \in S : i <= j
             Entry(i, how) ==
                [series |-> Get(amiibo_list[i], "amiiboSeries", None),
                 type |-> Get(amiibo_list[i], "type", None),
                 name |-> Get(amiibo_list[i], "name", None),
                 method |-> how, exc |-> "none"]
         IN  IF both # {} THEN Entry(First(both), <<"database_head+tail">>)
             ELSE IF tails # {} THEN Entry(First(tails), <<"database_tail">>)
             ELSE NotFound

\* the body of lookup_amiibo_data once load_amiibo_database has returned db:
\* the 4-tuple returned, or the exception raised (exc); the entries of the
\* "amiibo" list are objects whose fields, where present, are strings
lookup_amiibo_data(head_id, tail_id, db) ==
    IF ~Truthy(head_id) \/ ~Truthy(tail_id)
    THEN [series |-> None, type |-> None, name |-> None, method |-> None, exc |-> "none"]
    ELSE IF ~DbTruthy(db)
    THEN NotFound
    ELSE IF db.kind # "object"
    THEN [NotFound EXCEPT !.exc = "AttributeError"]
    ELSE LET amiibo_list == Get(db.fields, "amiibo", <<>>)
             both == {i \in 1..Len(amiibo_list) :
                        /\ Get(amiibo_list[i], "head", None) = head_id
                        /\ Get(amiibo_list[i], "tail", None) = tail_id}
             tails == {i \in 1..Len(amiibo_list) :
                        Get(amiibo_list[i], "tail", None) = tail_id}
             First(S) == CHOOSE i \in S : \A j \in S : i <= j
             Entry(i, how) ==
                [series |-> Get(amiibo_list[i], "amiiboSeries", Unknown),
                 type |-> Get(amiibo_list[i], "type", Unknown),
                 name |-> Get(amiibo_list[i], "name", Unknown),
                 method |-> how, exc |-> "none"]
         IN  IF both # {} THEN Entry(First(both), <<"database_head+tail">>)
             ELSE IF tails # {} THEN Entry(First(tails), <<"database_tail">>)
             ELSE NotFound

\* lookup_amiibo_data with the database ld it loaded: what it returns, the
\* database it searched and the globals afterwards
LookupWith(head_id, tail_id, ld) ==
    [value |-> lookup_amiibo_data(head_id, tail_id, ld.db), db |-> ld.db,
     cache |-> ld.cache, attempted |-> ld.attempted]

invalid_chars == {"<", ">", ":", "\"", "|", "?", "*", "/", "\\"}

RECURSIVE LStrip(_)
LStrip(s) == IF s # <<>> /\ Head(s) \in {" ", "."} THEN LStrip(Tail(s)) ELSE s

RECURSIVE RStrip(_)
RStrip(s) ==
    IF s # <<>> /\ s[Len(s)] \in {" ", "."} THEN RStrip(SubSeq(s, 1, Len(s) - 1)) ELSE s

\* a variant that cuts to 200 characters before it strips
sanitize_filename_cutFirst(filename) ==
    LET replaced == [i \in 1..Len(filename) |->
                        IF filename[i] \in invalid_chars THEN "_" ELSE filename[i]]
    IN  RStrip(LStrip(IF Len(replaced) > 200 THEN SubSeq(replaced, 1, 200) ELSE replaced))

sanitize_filename(filename) ==
    LET replaced == [i \in 1..Len(filename) |->
                        IF filename[i] \in invalid_chars THEN "_" ELSE filename[i]]
        stripped == RStrip(LStrip(replaced))
    IN  IF Len(stripped) > 200 THEN SubSeq(stripped, 1, 200) ELSE stripped


-----------------------------------------------------------------------------
(* pathlib *)

\* Path(p) / name: an empty name adds no part
PathJoin(p, name) == IF name = <<>> THEN p ELSE Append(p, name)

\* Path.parent
Parent(p) == IF p = <<>> THEN <<>> ELSE SubSeq(p, 1, Len(p) - 1)

\* Path.name
Name(p) == IF p = <<>> THEN <<>> ELSE p[Len(p)]

\* str.rfind('.') as a 1-based index, 0 when there is no dot
RFindDot(name) ==
    LET dots == {i \in 1..Len(name) : name[i] = "."}
    IN  IF dots = {} THEN 0 ELSE CHOOSE i \in dots : \A j \in dots : j <= i

\* Path.suffix: from the last dot, unless it is the first or the last character
Suffix(p) ==
    LET name == Name(p)
        i == RFindDot(name)
    IN  IF 1 < i /\ i < Len(name) THEN SubSeq(name, i, Len(name)) ELSE <<>>

\* Path.stem
Stem(p) ==
    LET name == Name(p)
        i == RFindDot(name)
    IN  IF 1 < i /\ i < Len(name) THEN SubSeq(name, 1, i - 1) ELSE name

\* p is q or an ancestor of q
IsPrefix(p, q) == Len(p) <= Len(q) /\ SubSeq(q, 1, Len(p)) = p

\* Path.exists() over the files and directories of fs; the working directory exists
Exists(p, files, dirs) == p = <<>> \/ p \in DOMAIN files \/ p \in dirs

RECURSIVE Probe_noSuffix(_, _, _, _)
\* a variant that leaves the suffix off the new name
Probe_noSuffix(output_file, counter, files, dirs) ==
    IF ~Exists(PathJoin(Parent(output_file),
                        Stem(output_file) \o <<" ", "(">> \o Decimal(counter) \o <<")">>),
               files, dirs)
    THEN PathJoin(Parent(output_file),
                  Stem(output_file) \o <<" ", "(">> \o Decimal(counter) \o <<")">>)
    ELSE Probe_noSuffix(output_file, counter + 1, files, dirs)

RECURSIVE Probe(_, _, _, _)
\* the while loop of make_unique_filename, entered with counter
Probe(output_file, counter, files, dirs) ==
    LET new_name == Stem(output_file) \o <<" ", "(">> \o Decimal(counter) \o <<")">>
                        \o Suffix(output_file)
        new_path == PathJoin(Parent(output_file), new_name)
    IN  IF ~Exists(new_path, files, dirs) THEN new_path
        ELSE Probe(output_file, counter + 1, files, dirs)

\* a variant that tries the counter 1 only
make_unique_filename_once(output_file, files, dirs) ==
    IF ~Exists(output_file, files, dirs) THEN output_file
    ELSE PathJoin(Parent(output_file),
                  Stem(output_file) \o <<" ", "(", "1", ")">> \o Suffix(output_file))

\* a variant that returns the wanted path whether or not it exists
make_unique_filename_overwrite(output_file, files, dirs) == output_file

make_unique_filename(output_file, files, dirs) ==
    IF ~Exists(output_file, files, dirs) THEN output_file
    ELSE Probe(output_file, 1, files, dirs)

-----------------------------------------------------------------------------
(* fca_encode.py: encode_fca *)

\* str.startswith('.')
IsHidden(name) == name # <<>> /\ Head(name) = "."

\* the directories of the input file system (they exist whatever files there are)
TreeDirs == { <<<<"d">>>>, <<<<"e">>>> }

\* a variant that descends into hidden directories
Walk_intoHidden(input_path, t) ==
    { p \in DOMAIN t :
        /\ IsPrefix(input_path, p)
        /\ Len(p) > Len(input_path)
        /\ ~IsHidden(p[Len(p)]) }

\* the files os.walk(input_path) reaches: hidden directories are not descended
\* into and hidden file names are skipped
Walk(input_path, t) ==
    { p \in DOMAIN t :
        /\ IsPrefix(input_path, p)
        /\ Len(p) > Len(input_path)
        /\ \A i \in (Len(input_path) + 1)..Len(p) : ~IsHidden(p[i]) }

\* the orders in which a directory listing may come back
Orders(S) == { f \in [1..Cardinality(S) -> S] : \A i, j \in DOMAIN f : i # j => f[i] # f[j] }

RECURSIVE WalkOrders(_, _)
\* the lists `files` may hold after the collection loop
WalkOrders(dirs, t) ==
    IF dirs = <<>> THEN { <<>> }
    ELSE { a \o b : a \in Orders(Walk(Head(dirs), t)), b \in WalkOrders(Tail(dirs), t) }

RECURSIVE Insert(_, _)
Insert(p, sorted) ==
    IF sorted = <<>> THEN <<p>>
    ELSE IF PathLess(p, Head(sorted)) THEN <<p>> \o sorted
    ELSE <<Head(sorted)>> \o Insert(p, Tail(sorted))

\* a variant that leaves the list in the order of the walk
SortFiles_unsorted(files) == files

RECURSIVE SortFiles(_)
\* files.sort()
SortFiles(files) ==
    IF files = <<>> THEN <<>> ELSE Insert(Head(files), SortFiles(Tail(files)))

\* the global header: b'FCA' and the version byte 1
GlobalHeader == <<70, 67, 65, 1>>

\* a variant whose total_size leaves out the 2 bytes of the header_size field
EncodeRecord_short(c) ==
    PackU32(2 + Len(c)) \o PackU16(2) \o <<detect_file_type(c), 0>> \o c

\* the bytes written for one embedded file
EncodeRecord(c) ==
    LET header_size == 2
        embedded_size == Len(c)
        total_size == 2 + header_size + embedded_size
    IN  PackU32(total_size) \o PackU16(header_size) \o <<detect_file_type(c), 0>> \o c

\* the bytes written to the output file for the sorted list files
EncodeArchive(files, t) ==
    GlobalHeader \o Concat([i \in 1..Len(files) |-> EncodeRecord(t[files[i]])])

\* Path.is_dir() on an input directory argument
IsDir(p) == p \in TreeDirs

-----------------------------------------------------------------------------
(* fca_tool.py: collect_input_files, encode_fca_from_sources *)

\* the working directory /w, under which the input file system lies
Cwd == << <<"/">>, <<"w">> >>

\* Path.is_absolute()
IsAbsolute(p) == p # <<>> /\ p[1] = <<"/">>

\* str(path.resolve()): the path made absolute (the paths of the model are
\* without '..' and without links)
Resolve(p) == IF IsAbsolute(p) THEN p ELSE Cwd \o p

\* the place in the input file system the path p names (a path outside the
\* working directory names none)
TreePath(p) ==
    IF IsPrefix(Cwd, Resolve(p))
    THEN SubSeq(Resolve(p), Len(Cwd) + 1, Len(Resolve(p)))
    ELSE << <<"/">> >>

\* the keyword parameters of encode_fca
EncodeFcaParams == { "input_dirs", "output_file" }

RECURSIVE AppendNew(_, _)
\* the loop body `if resolved not in seen_paths: ... resolved_files.append(path)`
\* run over the paths ps after resolved_files, whose resolved paths are the seen
AppendNew(resolved_files, ps) ==
    IF ps = <<>> THEN resolved_files
    ELSE IF \E i \in 1..Len(resolved_files) : Resolve(resolved_files[i]) = Resolve(Head(ps))
    THEN AppendNew(resolved_files, Tail(ps))
    ELSE AppendNew(Append(resolved_files, Head(ps)), Tail(ps))

\* the end of collect_input_files: the lists it may return, or the error raised
CollectEnd(files) ==
    IF \A f \in files : f = <<>>
    THEN [exc |-> "At least one input file is required", files |-> {}]
    ELSE [exc |-> "none", files |-> files]

\* collect_input_files(input_files, input_dirs) over the file system t
collect_input_files(files_arg, dirs_arg, t) ==
    IF \E i \in 1..Len(files_arg) : TreePath(files_arg[i]) \notin DOMAIN t
    THEN [exc |-> "Input file does not exist", files |-> {}]
    ELSE IF \E i \in 1..Len(dirs_arg) : ~IsDir(dirs_arg[i])
    THEN [exc |-> "Input path is not a directory", files |-> {}]
    ELSE CollectEnd({ AppendNew(AppendNew(<<>>, files_arg), w) : w \in WalkOrders(dirs_arg, t) })

\* encode_fca_from_sources once collect_input_files returned c: the archives it
\* may write, or the error
SourcesEncoded(c, t) ==
    [exc |-> c.exc,
     archives |-> { EncodeArchive([i \in 1..Len(fs) |-> TreePath(SortFiles(fs)[i])], t) :
                        fs \in c.files }]

\* encode_fca_from_sources(output_file, input_files, input_dirs)
encode_fca_from_sources(files_arg, dirs_arg, t) ==
    SourcesEncoded(collect_input_files(files_arg, dirs_arg, t), t)


-----------------------------------------------------------------------------
(* fca_decode.py: load_amiibo_database *)

\* the database file on disk: missing, not JSON, or a JSON object
DbMissing == [kind |-> "missing"]
DbInvalid == [kind |-> "invalid"]
DbObject(f) == [kind |-> "object", fields |-> f]
DbArray(items) == [kind |-> "array", items |-> items]

\* json.load(f) returns a value: the file holds JSON
Parses(dbf) == dbf.kind \in {"object", "array"}

\* the value json.load(f) returns
Parsed(dbf) == IF dbf.kind = "object" THEN JsonObject(dbf.fields) ELSE JsonArray(dbf.items)

\* a variant that reads the file again when the cache holds nothing
load_amiibo_database_retry(custom_database_path, dbf, cache, attempted) ==
    IF custom_database_path
    THEN [db |-> IF Parses(dbf) THEN Parsed(dbf) ELSE JsonNone,
          cache |-> cache, attempted |-> attempted]
    ELSE IF attempted /\ cache # JsonNone
    THEN [db |-> cache, cache |-> cache, attempted |-> attempted]
    ELSE IF Parses(dbf)
    THEN [db |-> Parsed(dbf), cache |-> Parsed(dbf), attempted |-> TRUE]
    ELSE [db |-> JsonNone, cache |-> cache, attempted |-> TRUE]

\* what load_amiibo_database returns and leaves in the two globals.  One file
\* stands for the file at the path consulted (the given one, or the first default
\* location that is a file).
load_amiibo_database(custom_database_path, dbf, cache, attempted) ==
    IF custom_database_path
    THEN [db |-> IF Parses(dbf) THEN Parsed(dbf) ELSE JsonNone,
          cache |-> cache, attempted |-> attempted]
    ELSE IF attempted
    THEN [db |-> cache, cache |-> cache, attempted |-> attempted]
    ELSE IF Parses(dbf)
    THEN [db |-> Parsed(dbf), cache |-> Parsed(dbf), attempted |-> TRUE]
    ELSE [db |-> JsonNone, cache |-> cache, attempted |-> TRUE]

\* lookup_amiibo_data(head_id, tail_id, custom_database_path): without a head
\* or a tail it returns before the database is loaded
LookupCall(head_id, tail_id, custom, dbf, cache, attempted) ==
    IF ~Truthy(head_id) \/ ~Truthy(tail_id)
    THEN LookupWith(head_id, tail_id,
                    [db |-> JsonNone, cache |-> cache, attempted |-> attempted])
    ELSE LookupWith(head_id, tail_id, load_amiibo_database(custom, dbf, cache, attempted))

-----------------------------------------------------------------------------
(* fca_decode.py: decode_fca *)

\* the output_dir argument
OutputDir == << <<"o", "u", "t">> >>

\* the state of one call of decode_fca: its locals, the output directory and
\* the database cache
Frame ==
    [dec |-> dec, err |-> err, pos |-> pos, version |-> version,
     file_count |-> file_count, out_files |-> out_files, out_dirs |-> out_dirs,
     extracted |-> extracted, warnings |-> warnings,
     db_cache |-> db_cache, db_attempted |-> db_attempted]

\* decode_fca raises e
Raise(s, e) == [s EXCEPT !.dec = "error", !.err = e]

\* the non-empty prefixes of a path
Ancestors(p) == { SubSeq(p, 1, n) : n \in 1..Len(p) }

\* Path.mkdir(parents=True, exist_ok=True) fails when a file is in the way
MkdirBlocked(p, files) == \E q \in Ancestors(p) : q \in DOMAIN files

\* f with the value v at x, x added to the domain when new
Put(f, x, v) == [y \in DOMAIN f \cup {x} |-> IF y = x THEN v ELSE f[y]]

\* f.read(n) at offset p of a: n bytes or what is left of the file; all that is
\* left for n = -1 (a smaller n raises, and nothing is read)
Read(a, p, n) ==
    IF n = -1 THEN Slice(a, p, Len(a))
    ELSE IF n < -1 THEN <<>>
    ELSE Slice(a, p, p + n)

\* a variant that does not look at the magic bytes
DecodeOpenStep_anyMagic(s, a) ==
    IF a = NoFile THEN [s EXCEPT !.dec = "error", !.err = "ValueError: Input file does not exist"]
    ELSE IF Len(Read(a, 3, 1)) < 1 THEN [s EXCEPT !.dec = "error", !.err = "struct.error"]
    ELSE [s EXCEPT !.dec = "loop", !.pos = 4, !.version = Read(a, 3, 1)[1],
                   !.out_dirs = @ \cup {OutputDir}]

\* decode_fca up to the record loop: the input check, the output directory, the
\* magic bytes and the version byte
DecodeOpenStep(s, a) ==
    IF a = NoFile THEN Raise(s, "ValueError: Input file does not exist")
    ELSE IF MkdirBlocked(OutputDir, s.out_files) THEN Raise(s, "FileExistsError")
    ELSE LET made == [s EXCEPT !.out_dirs = @ \cup Ancestors(OutputDir)]
             magic == Read(a, 0, 3)
             vbytes == Read(a, 3, 1)
         IN  IF magic # <<70, 67, 65>>
             THEN Raise([made EXCEPT !.pos = Len(magic)], "ValueError: Invalid FCA file")
             ELSE IF Len(vbytes) < 1
             THEN Raise([made EXCEPT !.pos = 3], "struct.error")
             ELSE [made EXCEPT !.dec = "loop", !.pos = 4, !.version = vbytes[1],
                               !.file_count = 0]

\* the name taken from the database entry r when it has a series, a type and a
\* name, else the digest of the content; ld holds the database globals
NameFrom(r, c, pro, ld) ==
    IF Truthy(r.series) /\ Truthy(r.type) /\ Truthy(r.name)
    THEN [subdir |-> PathJoin(PathJoin(<<>>, sanitize_filename(r.series)),
                              sanitize_filename(r.type)),
          hasSubdir |-> TRUE,
          filename |-> sanitize_filename(r.name)
                          \o (IF pro THEN <<>> ELSE <<".", "b", "i", "n">>),
          cache |-> ld.cache, attempted |-> ld.attempted, exc |-> r.exc]
    ELSE [subdir |-> <<>>, hasSubdir |-> FALSE, filename |-> Md5Hex(c),
          cache |-> ld.cache, attempted |-> ld.attempted, exc |-> r.exc]

\* the lookup of the identity id in the database that was loaded
NameLooked(id, c, pro, ld) ==
    NameFrom(lookup_amiibo_data(id.head, id.tail, ld.db), c, pro, ld)

\* a variant that consults the database whatever the type of the record
NameById_anyType(id, file_type, c, pro, custom, dbf, cache, attempted) ==
    IF Truthy(id.head) /\ Truthy(id.tail)
    THEN NameLooked(id, c, pro, load_amiibo_database(custom, dbf, cache, attempted))
    ELSE NameFrom(NotFound, c, pro, [cache |-> cache, attempted |-> attempted])

\* the name of a record whose identity is id: the database is consulted for
\* an amiibo type with both halves of the identity
NameById(id, file_type, c, pro, custom, dbf, cache, attempted) ==
    IF /\ file_type \in {FILE_TYPE_AMIIBO_V2, FILE_TYPE_AMIIBO_V3}
       /\ Truthy(id.head)
       /\ Truthy(id.tail)
    THEN NameLooked(id, c, pro, load_amiibo_database(custom, dbf, cache, attempted))
    ELSE NameFrom(NotFound, c, pro, [cache |-> cache, attempted |-> attempted])

\* the output name of a record: the sub-directory, the file name, and the
\* database globals after the lookup
OutputName(file_type, c, pro, custom, dbf, cache, attempted) ==
    NameById(extract_amiibo_id(c), file_type, c, pro, custom, dbf, cache, attempted)

\* the file is written at output_file and counted; the path printed is the
\* one relative to the output directory
WriteAt(s, rec, dirs, output_file) ==
    IF ~IsPrefix(OutputDir, output_file)
    THEN Raise([s EXCEPT !.out_dirs = dirs,
                         !.out_files = Put(@, output_file, rec.content),
                         !.file_count = @ + 1,
                         !.extracted = Append(@, [rec EXCEPT !.path = output_file])],
               "ValueError: not in the subpath")
    ELSE [s EXCEPT !.out_dirs = dirs,
                   !.out_files = Put(@, output_file, rec.content),
                   !.file_count = @ + 1,
                   !.extracted = Append(@, [rec EXCEPT !.path = output_file])]

\* the file goes to the first free name next to wanted
WriteUnique(s, rec, dirs, wanted) ==
    WriteAt(s, rec, dirs, make_unique_filename(wanted, s.out_files, dirs))

\* the sub-directory full_output_path is made, when there is one
WriteInto(s, rec, n, full_output_path) ==
    IF n.hasSubdir /\ MkdirBlocked(full_output_path, s.out_files)
    THEN Raise(s, "FileExistsError")
    ELSE WriteUnique(s, rec,
                     IF n.hasSubdir THEN s.out_dirs \cup Ancestors(full_output_path)
                     ELSE s.out_dirs,
                     PathJoin(full_output_path, n.filename))

\* the record is written under the name n, unless the lookup raised
WriteNamed(s, rec, n) ==
    IF n.exc # "none"
    THEN Raise([s EXCEPT !.db_cache = n.cache, !.db_attempted = n.attempted], n.exc)
    ELSE WriteInto([s EXCEPT !.db_cache = n.cache, !.db_attempted = n.attempted],
                   rec, n, OutputDir \o n.subdir)

\* the rest of one loop iteration once the content is read: name the record,
\* write it, count it
WriteRecord(s, rec, pro, custom, dbf) ==
    WriteNamed(s, rec, OutputName(rec.file_type, rec.content, pro, custom, dbf,
                                  s.db_cache, s.db_attempted))

\* a variant that also ends the loop on a whole total_size field
IsEof_upTo4(total_size_bytes) == Len(total_size_bytes) <= 4

\* a variant that never finds the content short
ShortContent_never(c, embedded_size) == FALSE

\* a variant for which a nonzero reserved byte is an error
CheckReserved_fatal(s, reserved, n) ==
    IF reserved # 0
    THEN [s EXCEPT !.dec = "error", !.err = "ValueError: Reserved byte is not 0x00"]
    ELSE s

\* fewer than 4 bytes came back where a total_size is read: the loop ends
IsEof(total_size_bytes) == Len(total_size_bytes) < 4

\* fewer header bytes came back than header_size
ShortHeader(header_bytes, header_size) == Len(header_bytes) < header_size

\* fewer content bytes came back than embedded_size
ShortContent(c, embedded_size) == Len(c) < embedded_size

\* a reserved byte that is not 0x00 prints a warning for record number n
CheckReserved(s, reserved, n) ==
    IF reserved # 0 THEN [s EXCEPT !.warnings = @ \cup {n}] ELSE s

\* a variant that goes back to the start of the record and reads it again when
\* the content came back short
LoopContent_retry(s, start, total_size, header_size, typed, file_type, reserved, embedded_size, c, next, pro, custom, dbf) ==
    IF embedded_size < -1
    THEN Raise([s EXCEPT !.pos = next], "ValueError: read length must be non-negative or -1")
    ELSE IF ShortContent(c, embedded_size)
    THEN [s EXCEPT !.pos = start]
    ELSE WriteRecord([s EXCEPT !.pos = next],
                     [start |-> start, total_size |-> total_size,
                      header_size |-> header_size, typed |-> typed,
                      file_type |-> file_type, reserved |-> reserved,
                      content |-> c, next |-> next, path |-> <<>>],
                     pro, custom, dbf)

\* a variant that writes what came back of the content before it finds it short
LoopContent_partial(s, start, total_size, header_size, typed, file_type, reserved, embedded_size, c, next, pro, custom, dbf) ==
    IF embedded_size < -1
    THEN Raise([s EXCEPT !.pos = next], "ValueError: read length must be non-negative or -1")
    ELSE IF ShortContent(c, embedded_size)
    THEN Raise(WriteRecord([s EXCEPT !.pos = next],
                           [start |-> start, total_size |-> total_size,
                            header_size |-> header_size, typed |-> typed,
                            file_type |-> file_type, reserved |-> reserved,
                            content |-> c, next |-> next, path |-> <<>>],
                           pro, custom, dbf),
               "ValueError: Unexpected EOF while reading embedded file")
    ELSE WriteRecord([s EXCEPT !.pos = next],
                     [start |-> start, total_size |-> total_size,
                      header_size |-> header_size, typed |-> typed,
                      file_type |-> file_type, reserved |-> reserved,
                      content |-> c, next |-> next, path |-> <<>>],
                     pro, custom, dbf)

\* the content c was read at offset p3, embedded_size bytes asked for
LoopContent(s, start, total_size, header_size, typed, file_type, reserved, embedded_size, c, next, pro, custom, dbf) ==
    IF embedded_size < -1
    THEN Raise([s EXCEPT !.pos = next], "ValueError: read length must be non-negative or -1")
    ELSE IF ShortContent(c, embedded_size)
    THEN Raise([s EXCEPT !.pos = next],
               "ValueError: Unexpected EOF while reading embedded file")
    ELSE WriteRecord([s EXCEPT !.pos = next],
                     [start |-> start, total_size |-> total_size,
                      header_size |-> header_size, typed |-> typed,
                      file_type |-> file_type, reserved |-> reserved,
                      content |-> c, next |-> next, path |-> <<>>],
                     pro, custom, dbf)

\* the header was parsed: the reserved byte is looked at, the content is read
LoopParsed(s, a, start, total_size, header_size, typed, file_type, reserved, embedded_size, c, p3, pro, custom, dbf) ==
    LoopContent(IF typed THEN CheckReserved(s, reserved, s.file_count + 1) ELSE s,
                start, total_size, header_size, typed, file_type, reserved,
                embedded_size, c, p3 + Len(c), pro, custom, dbf)

\* the header bytes were read, ending at offset p3
LoopHeader(s, a, total_size, header_size, header_bytes, typed, p3, pro, custom, dbf) ==
    IF header_size > 0 /\ ShortHeader(header_bytes, header_size)
    THEN Raise([s EXCEPT !.pos = p3], "ValueError: Unexpected EOF while reading header")
    ELSE LoopParsed(s, a, s.pos, total_size, header_size, typed,
                    IF typed THEN header_bytes[1] ELSE FILE_TYPE_UNKNOWN,
                    IF typed THEN header_bytes[2] ELSE 0,
                    total_size - 2 - header_size,
                    Read(a, p3, total_size - 2 - header_size),
                    p3, pro, custom, dbf)

\* header_size was unpacked, the read position being p2
LoopHeaderSize(s, a, total_size, header_size, header_bytes, p2, pro, custom, dbf) ==
    LoopHeader(s, a, total_size, header_size, header_bytes,
               s.version = 1 /\ header_size = 2, p2 + Len(header_bytes),
               pro, custom, dbf)

\* total_size was unpacked and hbytes came back for the header_size field
LoopTotalSize(s, a, total_size, hbytes, p2, pro, custom, dbf) ==
    IF Len(hbytes) < 2 THEN Raise([s EXCEPT !.pos = p2], "struct.error")
    ELSE LoopHeaderSize(s, a, total_size, UnpackU16(hbytes),
                        IF UnpackU16(hbytes) > 0 THEN Read(a, p2, UnpackU16(hbytes))
                        ELSE <<>>,
                        p2, pro, custom, dbf)

\* total_size_bytes came back where a total_size field is read
LoopRead(s, a, total_size_bytes, hbytes, pro, custom, dbf) ==
    IF IsEof(total_size_bytes)
    THEN [s EXCEPT !.dec = "done", !.pos = s.pos + Len(total_size_bytes)]
    ELSE LoopTotalSize(s, a, UnpackU32(total_size_bytes), hbytes,
                       s.pos + 4 + Len(hbytes), pro, custom, dbf)

\* one iteration of the record loop, or its end
DecodeLoopStep(s, a, pro, custom, dbf) ==
    LoopRead(s, a, Read(a, s.pos, 4), Read(a, s.pos + 4, 2), pro, custom, dbf)

-----------------------------------------------------------------------------
(* The inputs of the model *)

\* a 532-byte NTAG215 dump with the given head and tail bytes
Amiibo532(head_bytes, tail_bytes) ==
    Patch(Patch(Patch(Zeros(532), 12, NtagCC), 84, head_bytes), 88, tail_bytes)

\* b'hi', and b'ih', which shares its checksum name
CHi == <<104, 105>>
CIh == <<105, 104>>
CAmiiboA == Amiibo532(<<1, 2, 3, 4>>, <<5, 6, 7, 8>>)

\* the contents an input file may have
TreeContents == { <<>>, CHi, CIh, CAmiiboA }

\* the places an input file may be at: d/a, d/b, e/a and the hidden d/.h
TreePaths ==
    { << <<"d">>, <<"a">> >>, << <<"d">>, <<"b">> >>, << <<"e">>, <<"a">> >>,
      << <<"d">>, <<".", "h">> >> }

\* the input file systems: at most MaxFiles regular files
Trees ==
    UNION { [P -> TreeContents] : P \in { Q \in SUBSET TreePaths : Cardinality(Q) <= MaxFiles } }

\* the input_dirs arguments: d; e then d; a path that is no directory
DirArgs ==
    { << <<<<"d">>>> >>, << <<<<"e">>>>, <<<<"d">>>> >>, << <<<<"x">>>> >> }

\* a database with two entries of the same tail
DbTable ==
    [amiibo |-> <<
        [head |-> Hex(<<1, 2, 3, 4>>), tail |-> Hex(<<5, 6, 7, 8>>),
         amiiboSeries |-> <<"S", " ", "M">>, type |-> <<"F", "i", "g">>,
         name |-> <<"A", ":", "B", ".">>],
        [head |-> Hex(<<0, 0, 0, 0>>), tail |-> Hex(<<5, 6, 7, 8>>),
         amiiboSeries |-> <<"S", " ", "M">>, type |-> <<"C", "a", "r", "d">>,
         name |-> <<"Z">>] >>]

DbFiles == { DbMissing, DbInvalid, DbObject(DbTable) }

\* the empty directory listing
NoFiles == <<>>

\* one record as it lies in an archive
RawRecord(total_size, header_size, header_bytes, c) ==
    PackU32(total_size) \o PackU16(header_size) \o header_bytes \o c

\* 92 bytes, the shortest content that carries an identity key
Id92 == Patch(Patch(Zeros(92), 84, <<1, 2, 3, 4>>), 88, <<5, 6, 7, 8>>)

\* the records a hand-made archive is built from: well-formed ones (an empty
\* content, a nonzero reserved byte, a type byte beyond the enumeration, header
\* sizes 0 and 3, an identity-bearing content typed amiibo v2 with the reserved
\* byte zero and nonzero) and ones whose total_size is less than 2 + header_size
RecordShapes ==
    { RawRecord(4, 2, <<0, 0>>, <<>>),
      RawRecord(5, 2, <<7, 1>>, <<88>>),
      RawRecord(3, 0, <<>>, <<88>>),
      RawRecord(6, 3, <<1, 0, 0>>, <<88>>),
      RawRecord(96, 2, <<1, 0>>, Id92),
      RawRecord(96, 2, <<1, 5>>, Id92),
      RawRecord(3, 2, <<0, 0>>, <<>>),
      RawRecord(2, 2, <<0, 0>>, <<>>) }

RECURSIVE Bodies(_)
\* the concatenations of at most n records
Bodies(n) ==
    IF n = 0 THEN { <<>> }
    ELSE { <<>> } \cup { b \o r : b \in Bodies(n - 1), r \in RecordShapes }

\* the prefixes a record is cut to: every length in the first TruncWindow bytes,
\* one byte short, and whole
Cuts(r) ==
    { Slice(r, 0, k) : k \in { j \in 0..Len(r) : j <= TruncWindow \/ j >= Len(r) - 1 } }

\* the archive files decode_fca may be given: version-1 archives of at most
\* MaxRecords records, the last one cut anywhere; version-2 archives; files whose
\* first bytes are not FCA, files shorter than the global header
ForeignArchives ==
    { GlobalHeader \o b \o t :
        b \in Bodies(MaxRecords - 1), t \in UNION { Cuts(r) : r \in RecordShapes } }
    \cup { <<70, 67, 65, 2>> \o r : r \in RecordShapes }
    \cup { m \o r : m \in { <<88, 67, 65, 1>>, <<70, 88, 65, 1>>, <<70, 67, 66, 1>> },
                    r \in { <<>>, RawRecord(5, 2, <<7, 1>>, <<88>>) } }
    \cup { Slice(GlobalHeader, 0, k) : k \in 0..3 }

\* the output directory before decode_fca: absent, or holding a file that has
\* the checksum name of the content b'X'
InitialOutputs ==
    { [files |-> NoFiles, dirs |-> {}],
      [files |-> (Append(OutputDir, Md5Hex(<<88>>)) :> <<9>>), dirs |-> {OutputDir}] }

-----------------------------------------------------------------------------
(* Actions *)

\* nothing was called yet
InitCall ==
    /\ input_dirs = <<>>
    /\ input_files = <<>>
    /\ entry = "none"
    /\ enc = "idle"
    /\ use_pro_names = FALSE
    /\ database_file = FALSE
    /\ dec = "idle"
    /\ err = "none"
    /\ pos = 0
    /\ version = 0
    /\ file_count = 0
    /\ out_before = NoFiles
    /\ extracted = <<>>
    /\ warnings = {}
    /\ db_cache = JsonNone
    /\ db_attempted = FALSE
    /\ result = NotRun

\* and no function is given arguments
InitCommon ==
    /\ InitCall
    /\ args = NoArgs

\* an input tree, no archive yet, an empty output directory
Init ==
    /\ InitCommon
    /\ tree \in Trees
    /\ archive = NoFile
    /\ db_file \in DbFiles
    /\ out_files = NoFiles
    /\ out_dirs = {}
    /\ content = <<>>

\* a variant that opens the output file and writes the global header before
\* it looks at the directories
EncodeFcaWith_openFirst(dirs) ==
    /\ input_dirs' = dirs
    /\ IF \A i \in 1..Len(dirs) : IsDir(dirs[i])
       THEN /\ \E files \in WalkOrders(dirs, tree) :
                    archive' = EncodeArchive(SortFiles(files), tree)
            /\ enc' = "done"
       ELSE /\ enc' = "error"
            /\ archive' = GlobalHeader

\* encode_fca(dirs, output_file)
EncodeFcaWith(dirs) ==
    /\ input_dirs' = dirs
    /\ IF \A i \in 1..Len(dirs) : IsDir(dirs[i])
       THEN /\ \E files \in WalkOrders(dirs, tree) :
                    archive' = EncodeArchive(SortFiles(files), tree)
            /\ enc' = "done"
       ELSE /\ enc' = "error"
            /\ UNCHANGED archive

\* encode_fca(input_dirs, output_file)
EncodeFca ==
    /\ enc = "idle"
    /\ dec = "idle"
    /\ entry' = "encode_fca"
    /\ UNCHANGED input_files
    /\ \E dirs \in DirArgs : EncodeFcaWith(dirs)
    /\ UNCHANGED <<tree, db_file, use_pro_names, database_file, dec, err, pos, version,
                   file_count, out_files, out_dirs, out_before, extracted, warnings,
                   db_cache, db_attempted, content, args, result>>

\* the variables of decode_fca take the values of frame n
SetFrame(n) ==
    /\ dec' = n.dec
    /\ err' = n.err
    /\ pos' = n.pos
    /\ version' = n.version
    /\ file_count' = n.file_count
    /\ out_files' = n.out_files
    /\ out_dirs' = n.out_dirs
    /\ extracted' = n.extracted
    /\ warnings' = n.warnings
    /\ db_cache' = n.db_cache
    /\ db_attempted' = n.db_attempted

\* decode_fca is called: everything before the record loop
DecodeOpen ==
    /\ dec = "idle"
    /\ \E pro \in BOOLEAN, custom \in BOOLEAN :
        /\ use_pro_names' = pro
        /\ database_file' = custom
    /\ out_before' = out_files
    /\ SetFrame(DecodeOpenStep(Frame, archive))
    /\ UNCHANGED <<tree, input_dirs, input_files, entry, archive, enc, db_file,
                   content, args, result>>

\* one record is read, named and written, or decode_fca raises
DecodeRecord ==
    /\ dec = "loop"
    /\ Len(archive) - pos >= 4
    /\ SetFrame(DecodeLoopStep(Frame, archive, use_pro_names, database_file, db_file))
    /\ UNCHANGED <<tree, input_dirs, input_files, entry, archive, enc, db_file,
                   use_pro_names, database_file, out_before, content, args, result>>

\* fewer than 4 bytes are left where a total_size is read: the loop ends
DecodeEof ==
    /\ dec = "loop"
    /\ Len(archive) - pos < 4
    /\ SetFrame(DecodeLoopStep(Frame, archive, use_pro_names, database_file, db_file))
    /\ UNCHANGED <<tree, input_dirs, input_files, entry, archive, enc, db_file,
                   use_pro_names, database_file, out_before, content, args, result>>

\* an archive file made elsewhere, no input tree
InitDecode ==
    /\ InitCommon
    /\ tree = NoFiles
    /\ archive \in ForeignArchives
    /\ db_file \in { DbMissing, DbObject(DbTable) }
    /\ \E o \in InitialOutputs :
        /\ out_files = o.files
        /\ out_dirs = o.dirs
    /\ content = <<>>

NextDecode == DecodeOpen \/ DecodeRecord \/ DecodeEof

SpecDecode == InitDecode /\ [][NextDecode]_vars

\* a round of the record loop, or its end
LoopStep == DecodeRecord \/ DecodeEof

\* the same, the call being made and running on: decode_fca is one sequential
\* function, so a step that can be taken is taken.  The weak fairness of the
\* loop step is written with its enabling condition, dec = "loop", in place of
\* ENABLED <<LoopStep>>_vars.
SpecDecodeLive ==
    /\ InitDecode
    /\ [][NextDecode]_vars
    /\ WF_vars(DecodeOpen)
    /\ ([]<>(dec # "loop") \/ []<><<LoopStep>>_vars)

Next == EncodeFca \/ DecodeOpen \/ DecodeRecord \/ DecodeEof

Spec == Init /\ [][Next]_vars


\* a well-formed version-1 record of type t
TypedRecord(t, c) == RawRecord(2 + 2 + Len(c), 2, <<t, 0>>, c)

\* 92 bytes with the given head and tail bytes
Keyed92(head_bytes, tail_bytes) == Patch(Patch(Zeros(92), 84, head_bytes), 88, tail_bytes)

\* the records the naming is exercised with: the identity 01020304/05060708 typed
\* amiibo v2, amiibo v3 and Unknown; typed amiibo, a content one byte short of
\* an identity, one with a zero tail, one with a zero head, one with a head and
\* one with a tail the databases do not hold; a Skylander-typed byte
NameRecords ==
    { TypedRecord(FILE_TYPE_AMIIBO_V2, Id92),
      TypedRecord(FILE_TYPE_AMIIBO_V3, Id92),
      TypedRecord(FILE_TYPE_UNKNOWN, Id92),
      TypedRecord(FILE_TYPE_AMIIBO_V2, Slice(Id92, 0, 91)),
      TypedRecord(FILE_TYPE_AMIIBO_V2, Keyed92(<<1, 2, 3, 4>>, <<0, 0, 0, 0>>)),
      TypedRecord(FILE_TYPE_AMIIBO_V2, Keyed92(<<0, 0, 0, 0>>, <<5, 6, 7, 8>>)),
      TypedRecord(FILE_TYPE_AMIIBO_V2, Keyed92(<<9, 9, 9, 9>>, <<5, 6, 7, 8>>)),
      TypedRecord(FILE_TYPE_AMIIBO_V2, Keyed92(<<1, 2, 3, 4>>, <<9, 9, 9, 9>>)),
      TypedRecord(FILE_TYPE_SKYLANDER, <<88>>) }

RECURSIVE NameBodies(_)
\* the concatenations of at most n of these records
NameBodies(n) ==
    IF n = 0 THEN { <<>> }
    ELSE { <<>> } \cup { b \o r : b \in NameBodies(n - 1), r \in NameRecords }

\* a database entry; del names the fields it lacks
DbEntry(head, tail, series, type, name, del) ==
    [k \in {"head", "tail", "amiiboSeries", "type", "name"} \ del |->
        CASE k = "head" -> head
          [] k = "tail" -> tail
          [] k = "amiiboSeries" -> series
          [] k = "type" -> type
          [] k = "name" -> name]

KeyHead == Hex(<<1, 2, 3, 4>>)
KeyTail == Hex(<<5, 6, 7, 8>>)

\* a table whose first entry matches the tail only and whose second matches
\* head and tail
TailFirstTable ==
    [amiibo |-> <<
        DbEntry(Hex(<<255, 255, 255, 255>>), KeyTail, <<"S">>, <<"T">>, <<"t", "a", "i", "l">>, {}),
        DbEntry(KeyHead, KeyTail, <<"S">>, <<"T">>, <<"b", "o", "t", "h">>, {}),
        DbEntry(KeyHead, KeyTail, <<"S">>, <<"T">>, <<"l", "a", "t", "e", "r">>, {}) >>]

\* the tables of one entry for the identity 01020304/05060708 that lacks one field
LackingTables ==
    { [amiibo |-> << DbEntry(KeyHead, KeyTail, <<"S">>, <<"T">>, <<"N">>, {k}) >>] :
        k \in {"head", "tail", "amiiboSeries", "type", "name"} }

\* the tables of one entry whose series, type or name is all dots and spaces,
\* or empty
BlankTables ==
    { [amiibo |-> << DbEntry(KeyHead, KeyTail, <<".">>, <<"T">>, <<"N">>, {}) >>],
      [amiibo |-> << DbEntry(KeyHead, KeyTail, <<"S">>, <<" ", ".">>, <<"N">>, {}) >>],
      [amiibo |-> << DbEntry(KeyHead, KeyTail, <<"S">>, <<"T">>, <<".", ".">>, {}) >>],
      [amiibo |-> << DbEntry(KeyHead, KeyTail, <<".">>, <<".">>, <<".">>, {}) >>],
      [amiibo |-> << DbEntry(KeyHead, KeyTail, <<"S">>, <<"T">>, <<>>, {}) >>] }

\* the database files that are no usable table: no file, no JSON, JSON that is
\* an array (empty or not) or an object without fields or without "amiibo"
UnavailableDbs ==
    { DbMissing, DbInvalid, DbArray(<<>>), DbArray(<<1>>), DbObject(<<>>),
      DbObject([other |-> <<>>]) }

NameDbs ==
    UnavailableDbs
    \cup { DbObject(t) : t \in {DbTable, TailFirstTable} \cup LackingTables \cup BlankTables }

\* archives of at most MaxRecords of the naming records, an empty output
\* directory, any database file
InitNames ==
    /\ InitCommon
    /\ tree = NoFiles
    /\ archive \in { GlobalHeader \o b : b \in NameBodies(MaxRecords) }
    /\ db_file \in NameDbs
    /\ out_files = NoFiles
    /\ out_dirs = {}
    /\ content = <<>>

SpecNames == InitNames /\ [][NextDecode]_vars

\* the database files the two database functions are called on
CallDbs ==
    { DbMissing, DbInvalid, DbArray(<<1>>), DbObject(<<>>) }
    \cup { DbObject(t) : t \in {DbTable, TailFirstTable} \cup LackingTables }

\* the keys looked up: with and without head and tail, heads and tails the
\* tables hold and do not hold
CallKeys ==
    { [head_id |-> KeyHead, tail_id |-> KeyTail],
      [head_id |-> Hex(<<9, 9, 9, 9>>), tail_id |-> KeyTail],
      [head_id |-> KeyHead, tail_id |-> Hex(<<9, 9, 9, 9>>)],
      [head_id |-> None, tail_id |-> KeyTail],
      [head_id |-> <<>>, tail_id |-> KeyTail],
      [head_id |-> KeyHead, tail_id |-> None] }

\* a fresh process, a key, a database file
InitDb ==
    /\ InitCall
    /\ args \in CallKeys
    /\ tree = NoFiles
    /\ archive = NoFile
    /\ db_file \in CallDbs
    /\ out_files = NoFiles
    /\ out_dirs = {}
    /\ content = <<>>

\* the number of calls made so far
Calls == IF result.fn = "none" THEN 0 ELSE result.seq

\* the frame of a step on the database
DbFrame ==
    UNCHANGED <<tree, input_dirs, input_files, entry, archive, enc, use_pro_names,
                database_file, dec, err, pos, version, file_count, out_files, out_dirs,
                out_before, extracted, warnings, content, args>>

\* the globals take the values ld leaves
SetGlobals(ld) ==
    /\ db_cache' = ld.cache
    /\ db_attempted' = ld.attempted

\* load_amiibo_database(custom_database_path) returns ld.db
LoadReturns(custom, ld) ==
    /\ result' = [fn |-> "load_amiibo_database", seq |-> Calls + 1, custom |-> custom,
                  file |-> db_file, value |-> ld.db]
    /\ SetGlobals(ld)

\* load_amiibo_database is called, with a path or without
LoadDb ==
    /\ Calls < MaxCalls
    /\ \E custom \in BOOLEAN :
        LoadReturns(custom, load_amiibo_database(custom, db_file, db_cache, db_attempted))
    /\ UNCHANGED db_file
    /\ DbFrame

\* lookup_amiibo_data returns r.value
LookupReturns(custom, r) ==
    /\ result' = [fn |-> "lookup_amiibo_data", seq |-> Calls + 1, custom |-> custom,
                  file |-> db_file, db |-> r.db, value |-> r.value]
    /\ SetGlobals(r)

\* lookup_amiibo_data is called with the key, with a database path or without
Lookup ==
    /\ Calls < MaxCalls
    /\ \E custom \in BOOLEAN :
        LookupReturns(custom, LookupCall(args.head_id, args.tail_id, custom, db_file,
                                         db_cache, db_attempted))
    /\ UNCHANGED db_file
    /\ DbFrame

\* the database file is created, removed or rewritten
ChangeDbFile ==
    /\ db_file' \in CallDbs \ {db_file}
    /\ UNCHANGED <<db_cache, db_attempted, result>>
    /\ DbFrame

NextDb == LoadDb \/ Lookup \/ ChangeDbFile

SpecDb == InitDb /\ [][NextDb]_vars

-----------------------------------------------------------------------------
(* The pure functions, applied to inputs of their own *)

\* the content lengths the classifier tells apart, and neighbours of them
ClassifyLengths == { 0, 16, 179, 180, 181, 320, 532, 533, 540, 572, 1024, 2047, 2048 }

\* the byte patterns the classifier looks for, and one byte that spoils the
\* zero run of the Lego Dimensions signature
Marks ==
    [ lego0 |-> [off |-> 0, bytes |-> <<4>>],
      lego7 |-> [off |-> 7, bytes |-> <<128>>],
      disney7 |-> [off |-> 7, bytes |-> <<137, 68, 0, 194>>],
      disney54 |-> [off |-> 54, bytes |-> <<23, 135, 142>>],
      sky5 |-> [off |-> 5, bytes |-> <<129, 1, 15>>],
      sky54 |-> [off |-> 54, bytes |-> <<15, 15, 15, 105>>],
      cc |-> [off |-> 12, bytes |-> NtagCC],
      spoil |-> [off |-> 100, bytes |-> <<1>>] ]

MarkOrder == <<"lego0", "sky5", "sky54", "lego7", "disney7", "disney54", "cc", "spoil">>

RECURSIVE Marked(_, _, _)
\* c with the marks of M written over it, in MarkOrder from position i on
Marked(c, M, i) ==
    IF i > Len(MarkOrder) THEN c
    ELSE IF MarkOrder[i] \in M
    THEN Marked(Patch(c, Marks[MarkOrder[i]].off, Marks[MarkOrder[i]].bytes), M, i + 1)
    ELSE Marked(c, M, i + 1)

\* the sets of marks written together: each signature alone, whole or with a
\* part missing, and signatures of two kinds at once
MarkSets ==
    { M \in SUBSET DOMAIN Marks :
        \/ Cardinality(M) <= 2
        \/ M \subseteq {"lego0", "lego7", "spoil", "cc"}
        \/ M \subseteq {"lego0", "disney7", "disney54", "cc"}
        \/ M \subseteq {"sky5", "sky54", "cc", "lego0"} }

ClassifyInputs == { Marked(Zeros(n), M, 1) : n \in ClassifyLengths, M \in MarkSets }

\* no codec call is under way
InitPure ==
    /\ InitCommon
    /\ tree = NoFiles
    /\ archive = NoFile
    /\ db_file = DbMissing
    /\ out_files = NoFiles
    /\ out_dirs = {}

\* the frame of a pure step
PureFrame ==
    UNCHANGED <<tree, input_dirs, input_files, entry, archive, enc, db_file,
                use_pro_names, database_file, dec, err, pos, version, file_count,
                out_files, out_dirs, out_before, extracted, warnings, db_cache,
                db_attempted, args>>

InitClassify ==
    /\ InitPure
    /\ content \in ClassifyInputs

\* detect_file_type(content) is called
Classify ==
    /\ result = NotRun
    /\ result' = [fn |-> "detect_file_type", value |-> detect_file_type(content)]
    /\ UNCHANGED content
    /\ PureFrame

SpecClassify == InitClassify /\ [][Classify]_vars

\* contents around the 0x5C-byte threshold, with head and tail bytes zero and not
ExtractLengths == { 0, 88, 91, 92, 93, 532 }
ExtractHeads == { <<0, 0, 0, 0>>, <<1, 2, 3, 4>>, <<171, 205, 239, 0>> }
ExtractTails == { <<0, 0, 0, 0>>, <<0, 0, 0, 1>>, <<5, 6, 7, 8>>, <<255, 0, 0, 0>> }

ExtractInputs ==
    { Patch(Patch(Patch(Zeros(n), 0, <<f>>), 84, h), 88, t) :
        n \in ExtractLengths, f \in {0, 9}, h \in ExtractHeads, t \in ExtractTails }

InitExtract ==
    /\ InitPure
    /\ content \in ExtractInputs

\* extract_amiibo_id(content) is called
ExtractId ==
    /\ result = NotRun
    /\ result' = [fn |-> "extract_amiibo_id", value |-> extract_amiibo_id(content)]
    /\ UNCHANGED content
    /\ PureFrame

SpecExtract == InitExtract /\ [][ExtractId]_vars

\* n times the letter a
Letters(n) == [i \in 1..n |-> "a"]

\* file names: a start and an end of spaces, dots and replaced characters,
\* around a run of letters that reaches the 200-character limit or not and
\* text with each of the nine replaced characters
SanitizeInputs ==
    { p \o Letters(n) \o c \o e :
        p \in { <<>>, <<" ">>, <<".">>, <<" ", ".", " ">>, <<"<">> },
        n \in { 0, 1, 195, 198, 199, 200, 204 },
        c \in { <<>>, <<"b">>, <<"b", "/", "c">>, <<"b", ".", "c">>, <<".", " ", "b">>,
                 <<"<", ">", ":", "\"", "|", "?", "*", "/", "\\">>, <<"_", " ">> },
        e \in { <<>>, <<".">>, <<" ">>, <<".", " ", ".">>, <<">">> } }

InitSanitize ==
    /\ InitCall
    /\ args \in { [filename |-> f] : f \in SanitizeInputs }
    /\ tree = NoFiles
    /\ archive = NoFile
    /\ db_file = DbMissing
    /\ out_files = NoFiles
    /\ out_dirs = {}
    /\ content = <<>>

\* sanitize_filename(filename) is called
Sanitize ==
    /\ result = NotRun
    /\ result' = [fn |-> "sanitize_filename", value |-> sanitize_filename(args.filename)]
    /\ UNCHANGED content
    /\ PureFrame

SpecSanitize == InitSanitize /\ [][Sanitize]_vars

\* the input_dirs arguments of the two entry points: none; d; d twice; e then
\* d; a path that is no directory alone and after d
SourceDirs ==
    { <<>>, << <<<<"d">>>> >>, << <<<<"d">>>>, <<<<"d">>>> >>, << <<<<"e">>>>, <<<<"d">>>> >>,
      << <<<<"x">>>> >>, << <<<<"d">>>>, <<<<"x">>>> >> }

\* the input_files arguments: none; d/a; d/a twice; the hidden d/.h; the
\* directory d; e/a then d/a, and the same with e/a spelled /w/e/a
SourceFiles ==
    { <<>>, << << <<"d">>, <<"a">> >> >>,
      << << <<"d">>, <<"a">> >>, << <<"d">>, <<"a">> >> >>,
      << << <<"d">>, <<".", "h">> >> >>, << <<<<"d">>>> >>,
      << << <<"e">>, <<"a">> >>, << <<"d">>, <<"a">> >> >>,
      << Cwd \o << <<"e">>, <<"a">> >>, << <<"d">>, <<"a">> >> >> }

\* the places an input file may be at: d/a, e/a, the hidden d/.h, d/s/a below a
\* subdirectory, d/.s/a and d/s/.t/a below hidden ones
SourcePaths ==
    { << <<"d">>, <<"a">> >>, << <<"e">>, <<"a">> >>, << <<"d">>, <<".", "h">> >>,
      << <<"d">>, <<"s">>, <<"a">> >>, << <<"d">>, <<".", "s">>, <<"a">> >>,
      << <<"d">>, <<"s">>, <<".", "t">>, <<"a">> >> }

\* the input file systems: at most MaxFiles regular files
SourceTrees ==
    UNION { [P -> {CHi, CIh}] : P \in { Q \in SUBSET SourcePaths : Cardinality(Q) <= MaxFiles } }

\* an input tree, the arguments the entry points are called with, and the
\* output file as it is before them (absent, or holding one byte)
InitSources ==
    /\ InitCall
    /\ args \in { [input_files |-> fs, input_dirs |-> ds, output_before |-> o,
                   exclude_pattern |-> <<"s">>] :
                    fs \in SourceFiles, ds \in SourceDirs, o \in {NoFile, <<9>>} }
    /\ tree \in SourceTrees
    /\ archive = args.output_before
    /\ db_file = DbMissing
    /\ out_files = NoFiles
    /\ out_dirs = {}
    /\ content = <<>>

\* what neither entry point touches
EncodeFrame ==
    UNCHANGED <<tree, db_file, use_pro_names, database_file, dec, err, pos, version,
                file_count, out_files, out_dirs, out_before, extracted, warnings,
                db_cache, db_attempted, content, args>>

\* encode_fca(args.input_dirs, output_file), writing the file `archive`
EncodeStandalone ==
    /\ enc = "idle"
    /\ entry' = "encode_fca"
    /\ EncodeFcaWith(args.input_dirs)
    /\ UNCHANGED <<input_files, result>>
    /\ EncodeFrame

\* encode_fca(args.input_dirs, output_file, exclude_pattern=...): the call
\* names a parameter encode_fca does not have and raises TypeError before the
\* body runs
EncodeExcluding ==
    /\ enc = "idle"
    /\ "exclude_pattern" \notin EncodeFcaParams
    /\ entry' = "encode_fca(exclude_pattern)"
    /\ enc' = "type_error"
    /\ UNCHANGED <<archive, input_dirs, input_files, result>>
    /\ EncodeFrame

\* encode_fca_from_sources returns after writing the file (result.archive is its
\* content after the call), or raises r.exc
SourcesReturn(r) ==
    IF r.exc # "none"
    THEN result' = [fn |-> "encode_fca_from_sources", exc |-> r.exc,
                    archive |-> args.output_before]
    ELSE \E a \in r.archives :
            result' = [fn |-> "encode_fca_from_sources", exc |-> "none", archive |-> a]

\* encode_fca_from_sources(output_file, args.input_files, args.input_dirs),
\* writing a file of its own
EncodeFromSources ==
    /\ result = NotRun
    /\ entry' = "encode_fca_from_sources"
    /\ input_files' = args.input_files
    /\ input_dirs' = args.input_dirs
    /\ SourcesReturn(encode_fca_from_sources(args.input_files, args.input_dirs, tree))
    /\ UNCHANGED <<archive, enc>>
    /\ EncodeFrame

NextSources == EncodeStandalone \/ EncodeExcluding \/ EncodeFromSources

SpecSources == InitSources /\ [][NextSources]_vars

\* the path Series/Type/name below the output directory
Below(series, type, name) == OutputDir \o <<series, type, name>>

\* the path of the benign table's first entry, with '.bin'
PathAB == Below(<<"S", " ", "M">>, <<"F", "i", "g">>, <<"A", "_", "B", ".", "b", "i", "n">>)

\* the output directory before the calls: empty; holding A_B.bin and
\* A_B (1).bin; holding a name with two dots, a name that starts with a dot
\* and the checksum name of b'X'
CollideOutputs ==
    { [files |-> NoFiles, dirs |-> {}],
      [files |-> (PathAB :> <<9>>)
                 @@ (Below(<<"S", " ", "M">>, <<"F", "i", "g">>,
                           <<"A", "_", "B", " ", "(", "1", ")", ".", "b", "i", "n">>) :> <<9>>),
       dirs |-> Ancestors(Parent(PathAB))],
      [files |-> (Append(OutputDir, <<"a", ".", "b", ".", "c">>) :> <<9>>)
                 @@ (Append(OutputDir, <<".", "h">>) :> <<9>>)
                 @@ (Append(OutputDir, Md5Hex(<<88>>)) :> <<9>>),
       dirs |-> {OutputDir}] }

\* the paths make_unique_filename is called with
UniqueInputs ==
    { PathAB, Parent(PathAB), Append(Parent(PathAB), <<"A", "_", "B">>),
      Append(OutputDir, <<"a", ".", "b", ".", "c">>), Append(OutputDir, <<".", "h">>),
      Append(OutputDir, Md5Hex(<<88>>)) }

\* archives of at most MaxRecords records, among them two of one identity and
\* different contents; the benign table
InitCollide ==
    /\ InitCall
    /\ args \in { [output_file |-> p] : p \in UniqueInputs }
    /\ tree = NoFiles
    /\ archive \in { GlobalHeader \o Concat(rs) :
                        rs \in UNION { [1..n -> { TypedRecord(FILE_TYPE_AMIIBO_V2, Id92),
                                                  TypedRecord(FILE_TYPE_AMIIBO_V2, CAmiiboA),
                                                  TypedRecord(FILE_TYPE_UNKNOWN, <<88>>) }] :
                                       n \in 0..MaxRecords } }
    /\ db_file = DbObject(DbTable)
    /\ \E o \in CollideOutputs :
        /\ out_files = o.files
        /\ out_dirs = o.dirs
    /\ content = <<>>

\* make_unique_filename(output_file) is called on the output directory as it is
Unique ==
    /\ result = NotRun
    /\ result' = [fn |-> "make_unique_filename",
                  value |-> make_unique_filename(args.output_file, out_files, out_dirs)]
    /\ UNCHANGED <<tree, input_dirs, input_files, entry, archive, enc, db_file,
                   use_pro_names, database_file, dec, err, pos, version, file_count,
                   out_files, out_dirs, out_before, extracted, warnings, db_cache,
                   db_attempted, content, args>>

NextCollide == Unique \/ DecodeOpen \/ DecodeRecord \/ DecodeEof

SpecCollide == InitCollide /\ [][NextCollide]_vars

-----------------------------------------------------------------------------
(* Properties *)

\* the files encode_fca collected, in one of the orders the walk may give
Collected == CHOOSE w \in WalkOrders(input_dirs, tree) : TRUE

\* how many of the collected files hold c
InCount(c) == Cardinality({ i \in 1..Len(Collected) : tree[Collected[i]] = c })

\* how many files of the output directory hold c
OutCount(c) == Cardinality({ p \in DOMAIN out_files : out_files[p] = c })

\* C1: encode followed by decode into an empty output directory succeeds and
\* leaves exactly one output file per collected input file, the output contents
\* being the input contents with the same multiplicities (empty and identical
\* contents included).
C1_RoundTrip ==
    (enc = "done" /\ dec \in {"done", "error"} /\ out_before = NoFiles) =>
        /\ dec = "done"
        /\ Cardinality(DOMAIN out_files) = Len(Collected)
        /\ \A c \in TreeContents : OutCount(c) = InCount(c)

\* two input files of identical, zero-length content were encoded and decoded
C1_Witness ==
    /\ enc = "done"
    /\ dec = "done"
    /\ Len(Collected) = 2
    /\ InCount(<<>>) = 2
    /\ OutCount(<<>>) = 2

RECURSIVE Framed(_, _)
\* the bytes b are the records of the contents cs, one after the other: each
\* total_size is 2 + header_size + len(content), each header_size is 2, each
\* reserved byte is 0, and nothing lies between or after them
Framed(b, cs) ==
    IF cs = <<>> THEN b = <<>>
    ELSE LET c == Head(cs)
             total_size == UnpackU32(SubSeq(b, 1, 4))
             header_size == UnpackU16(SubSeq(b, 5, 6))
         IN  /\ Len(b) >= 8 + Len(c)
             /\ header_size = 2
             /\ b[8] = 0
             /\ total_size = 2 + header_size + Len(c)
             /\ (c = <<>> => total_size = 4)
             /\ Framed(SubSeq(b, 4 + total_size + 1, Len(b)), Tail(cs))

\* the contents of the collected files in the order files.sort() leaves
SortedContents == [i \in 1..Len(Collected) |-> tree[SortFiles(Collected)[i]]]

\* C2: every record the encoder writes has header_size 2, reserved byte 0 and
\* total_size = 2 + header_size + len(content) (4 for an empty file), and the
\* records follow the global header without padding between or after them.
C2_Framing ==
    enc = "done" => Framed(SubSeq(archive, 5, Len(archive)), SortedContents)

\* an archive of two records was written, one of an empty file and one of an
\* amiibo dump
C2_Witness ==
    /\ enc = "done"
    /\ Len(Collected) = 2
    /\ InCount(<<>>) = 1
    /\ InCount(CAmiiboA) = 1

RECURSIVE RecordsAt(_, _)
\* from 0-based offset off to its end, the archive holds for each path of fs
\* total_size (u32, big-endian), header_size (u16, big-endian), the type byte
\* detect_file_type gives the content, the byte 0 and the content
RecordsAt(off, fs) ==
    IF fs = <<>> THEN off = Len(archive)
    ELSE LET c == tree[Head(fs)]
         IN  /\ Len(archive) >= off + 8 + Len(c)
             /\ UnpackU32(SubSeq(archive, off + 1, off + 4)) = 4 + Len(c)
             /\ UnpackU16(SubSeq(archive, off + 5, off + 6)) = 2
             /\ archive[off + 7] = detect_file_type(c)
             /\ archive[off + 8] = 0
             /\ SubSeq(archive, off + 9, off + 8 + Len(c)) = c
             /\ RecordsAt(off + 8 + Len(c), Tail(fs))

\* no path of fs is less than one before it
Ascending(fs) == \A i, j \in 1..Len(fs) : i < j => ~PathLess(fs[j], fs[i])

\* C3: the archive is the bytes 46 43 41 01 followed by one record per collected
\* file, the files taken in ascending path order, each record being total_size,
\* header_size, the detected type byte, 0x00 and the content.
C3_ByteExact ==
    enc = "done" =>
        /\ Len(archive) >= 4
        /\ SubSeq(archive, 1, 4) = <<70, 67, 65, 1>>
        /\ \E order \in Orders(1..Len(Collected)) :
              LET fs == [i \in 1..Len(Collected) |-> Collected[order[i]]]
              IN  Ascending(fs) /\ RecordsAt(4, fs)

\* two files of different content were collected from e and d, the amiibo dump
\* being the one in e
C3_Witness ==
    /\ enc = "done"
    /\ Len(input_dirs) = 2
    /\ Len(Collected) = 2
    /\ << <<"e">>, <<"a">> >> \in DOMAIN tree
    /\ tree[<< <<"e">>, <<"a">> >>] = CAmiiboA
    /\ InCount(CHi) = 1

\* the classifier as the ordered list of rules, the first that matches deciding
RuleList(c) ==
    LET n == Len(c)
        B(i) == c[i + 1]
        HasCC == B(12) = 241 /\ B(13) = 16 /\ B(14) = 255 /\ B(15) = 238
    IN  IF n = 180 /\ B(0) = 4 /\ B(7) = 128 /\ \A i \in 8..143 : B(i) = 0 THEN 5
        ELSE IF n = 320 /\ B(0) = 4
                /\ B(7) = 137 /\ B(8) = 68 /\ B(9) = 0 /\ B(10) = 194
                /\ B(54) = 23 /\ B(55) = 135 /\ B(56) = 142 THEN 4
        ELSE IF n \in {1024, 2048}
                /\ B(5) = 129 /\ B(6) = 1 /\ B(7) = 15
                /\ B(54) = 15 /\ B(55) = 15 /\ B(56) = 15 /\ B(57) = 105 THEN 3
        ELSE IF n \in {532, 540, 572} /\ HasCC THEN 1
        ELSE IF n = 2048 /\ HasCC THEN 2
        ELSE 0

\* a 2048-byte content with the Skylander signature and the F1 10 FF EE signature
BothSignatures(c) ==
    /\ Len(c) = 2048
    /\ SubSeq(c, 6, 8) = <<129, 1, 15>>
    /\ SubSeq(c, 55, 58) = <<15, 15, 15, 105>>
    /\ SubSeq(c, 13, 16) = <<241, 16, 255, 238>>

\* C4: detect_file_type returns, for every content, what the ordered rule list
\* gives: a value of the enumeration, Skylander for a 2048-byte content that
\* carries both signatures, Unknown for a content of any other length.
C4_Classifier ==
    result.fn = "detect_file_type" =>
        /\ result.value = RuleList(content)
        /\ result.value \in 0..5
        /\ (BothSignatures(content) => result.value = 3)
        /\ (Len(content) \notin {180, 320, 532, 540, 572, 1024, 2048} => result.value = 0)

\* a content with both signatures was classified
C4_Witness ==
    /\ result.fn = "detect_file_type"
    /\ BothSignatures(content)

\* C5: decode of a file whose first 3 bytes are not F, C, A (a file shorter than
\* 3 bytes included) fails and writes no output file.
C5_FormatRejection ==
    (dec # "idle" /\ archive # NoFile /\ Read(archive, 0, 3) # <<70, 67, 65>>) =>
        /\ dec = "error"
        /\ out_files = out_before
        /\ file_count = 0

\* decode failed on a file that holds a whole record behind a wrong magic
C5_Witness ==
    /\ dec = "error"
    /\ err = "ValueError: Invalid FCA file"
    /\ Len(archive) > 8

\* at the read position a whole total_size field is followed by fewer bytes
\* than it announces
TruncatedRecordAhead ==
    /\ dec = "loop"
    /\ Len(archive) - pos >= 4
    /\ UnpackU32(Read(archive, pos, 4)) > Len(archive) - pos - 4

\* C6: a record that the archive ends in the middle of (after its total_size
\* field) makes decode fail; the loop does not end normally there and nothing
\* is written for that record.
C6_TruncationFatal ==
    [][TruncatedRecordAhead =>
            (dec' = "error" /\ out_files' = out_files /\ file_count' = file_count)]_vars

\* decode failed inside the content of the second record, the first one written
C6_Witness ==
    /\ dec = "error"
    /\ err = "ValueError: Unexpected EOF while reading embedded file"
    /\ file_count = 1
    /\ pos = Len(archive)
    /\ Cardinality(DOMAIN out_files) = Cardinality(DOMAIN out_before) + 1

\* the position at which the loop last expected a total_size field
EofPos == IF extracted = <<>> THEN 4 ELSE extracted[Len(extracted)].next

\* C7, as stated: decode ends successfully only on a read of 0 bytes where a
\* total_size field is expected, so never with 1 to 3 bytes left over there.
C7_CleanEofOnly == dec = "done" => Len(archive) = EofPos

\* C7, amended: decode ends successfully only from the loop, on a read of fewer
\* than 4 bytes (0 to 3) where a total_size field is expected; with 1 to 3 bytes
\* left over there it does end successfully, the bytes being ignored.
C7_ShortReadEnds ==
    [][ /\ (dec' = "done" /\ dec # "done") =>
                (dec = "loop" /\ Len(archive) - pos \in 0..3)
        /\ (dec = "loop" /\ Len(archive) - pos \in 1..3) =>
                (dec' = "done" /\ out_files' = out_files) ]_vars

\* decode ended successfully after one record, with 1 to 3 bytes left over
C7_Witness ==
    /\ dec = "done"
    /\ file_count = 1
    /\ Len(archive) - EofPos \in 1..3

\* at the read position a record's total_size is smaller than 2 + header_size
NegativeSizeAhead ==
    /\ dec = "loop"
    /\ Len(archive) - pos >= 6
    /\ UnpackU32(Read(archive, pos, 4)) < 2 + UnpackU16(Read(archive, pos + 4, 2))

\* C8: a record whose total_size is smaller than 2 + header_size makes decode
\* fail, and no file is written for it.
C8_NegativeSizeRejected ==
    [][NegativeSizeAhead => (dec' = "error" /\ out_files' = out_files)]_vars

RECURSIVE RunDecode(_, _, _, _, _)
\* decode_fca run to its end from frame s on the archive a
RunDecode(s, a, pro, custom, dbf) ==
    IF s.dec \in {"done", "error"} THEN s
    ELSE IF s.dec = "idle" THEN RunDecode(DecodeOpenStep(s, a), a, pro, custom, dbf)
    ELSE RunDecode(DecodeLoopStep(s, a, pro, custom, dbf), a, pro, custom, dbf)

\* the frame decode_fca of this run started from: the output directory as it
\* was, its directories being those that held a file
StartFrame ==
    [dec |-> "idle", err |-> "none", pos |-> 0, version |-> 0, file_count |-> 0,
     out_files |-> out_before,
     out_dirs |-> UNION { Ancestors(Parent(p)) : p \in DOMAIN out_before },
     extracted |-> <<>>, warnings |-> {}, db_cache |-> JsonNone, db_attempted |-> FALSE]

\* the 0-based offsets of the reserved bytes of the records decoded so far
ReservedOffsets == { extracted[i].start + 7 : i \in { j \in 1..Len(extracted) : extracted[j].typed } }

\* the archives that differ from the archive decoded in reserved bytes only
ReservedTwins ==
    { [i \in 1..Len(archive) |-> IF (i - 1) \in T THEN v ELSE archive[i]] :
        T \in SUBSET ReservedOffsets \ {{}}, v \in {0, 255} }

\* C9: an archive that differs from the one decoded only in reserved bytes of
\* its records decodes with the same success or failure and to the same output
\* paths with the same contents.
C9_ReservedIgnored ==
    dec \in {"done", "error"} =>
        \A twin \in ReservedTwins :
            LET other == RunDecode(StartFrame, twin, use_pro_names, database_file, db_file)
            IN  /\ other.dec = dec
                /\ other.out_files = out_files

\* decode ended successfully after a warning on a record it named by identity
C9_Witness ==
    /\ dec = "done"
    /\ warnings # {}
    /\ \E i \in 1..Len(extracted) :
        /\ extracted[i].reserved # 0
        /\ Len(extracted[i].path) = 4

\* the text is the lowercase hexadecimal of the 4 bytes of c from 0-based offset off
IsHexOf(text, c, off) ==
    LET DigitValue(ch) == (CHOOSE d \in 1..16 : HexDigits[d] = ch) - 1
    IN  /\ Len(text) = 8
        /\ \A j \in 1..8 : \E d \in 1..16 : HexDigits[d] = text[j]
        /\ \A k \in 0..3 :
              DigitValue(text[2 * k + 1]) * 16 + DigitValue(text[2 * k + 2]) = c[off + k + 1]

\* C10: extract_amiibo_id gives no key for a content shorter than 0x5C bytes or
\* with bytes 0x58..0x5B all zero, whatever the head bytes; otherwise head is the
\* lowercase hex of bytes 0x54..0x57 and tail that of bytes 0x58..0x5B, a head of
\* zero bytes included.
C10_ExtractId ==
    result.fn = "extract_amiibo_id" =>
        IF Len(content) < 92 \/ \A i \in 89..92 : content[i] = 0
        THEN result.value = [head |-> None, tail |-> None]
        ELSE /\ IsHexOf(result.value.head, content, 84)
             /\ IsHexOf(result.value.tail, content, 88)

\* a key was extracted from a content whose head bytes are all zero
C10_Witness ==
    /\ result.fn = "extract_amiibo_id"
    /\ Len(content) >= 92
    /\ SubSeq(content, 85, 88) = <<0, 0, 0, 0>>
    /\ result.value.head = <<"0", "0", "0", "0", "0", "0", "0", "0">>
    /\ result.value.tail = <<"f", "f", "0", "0", "0", "0", "0", "0">>

\* what a lookup gets from the database file of this run
DbUsed == IF Parses(db_file) THEN Parsed(db_file) ELSE JsonNone

\* the name the lookup of the identity bytes of c yields
LookedUp(c) ==
    lookup_amiibo_data(Hex(SubSeq(c, 85, 88)), Hex(SubSeq(c, 89, 92)), DbUsed)

\* the record e is one the fallback naming applies to
FallbackCase(e) ==
    \/ e.file_type \notin {1, 2}
    \/ Len(e.content) < 92
    \/ \A i \in 89..92 : e.content[i] = 0
    \/ ~Truthy(LookedUp(e.content).name)

\* name, or name with the counter k put before the suffix
Numbered(name, k, suffix) == name \o <<" ", "(">> \o Decimal(k) \o <<")">> \o suffix

\* the record e was written directly under the output directory, named by the
\* digest of its content (with a counter when that name was taken)
Md5Named(e) ==
    /\ Len(e.path) = Len(OutputDir) + 1
    /\ Parent(e.path) = OutputDir
    /\ \/ Name(e.path) = Md5Hex(e.content)
       \/ \E k \in 1..(MaxRecords + 1) : Name(e.path) = Numbered(Md5Hex(e.content), k, <<>>)
    /\ e.path \in DOMAIN out_files
    /\ out_files[e.path] = e.content

\* C11: a record whose type is not amiibo v2/v3, or whose content is shorter
\* than 0x5C bytes, or whose bytes 0x58..0x5B are all zero, or for which the
\* lookup yields no name, is written directly under the output directory under
\* the hex digest of its content, never under an identity-derived path.
C11_Md5Fallback ==
    \A i \in 1..Len(extracted) : FallbackCase(extracted[i]) => Md5Named(extracted[i])

\* a record typed Unknown whose identity the database holds was written under
\* its digest, and so was an amiibo record whose tail the database does not hold
C11_Witness ==
    /\ dec = "done"
    /\ db_file = DbObject(DbTable)
    /\ Len(extracted) = 2
    /\ extracted[1].file_type = 0
    /\ extracted[1].content = Id92
    /\ extracted[1].path = Append(OutputDir, Md5Hex(Id92))
    /\ extracted[2].file_type = 1
    /\ extracted[2].content = Keyed92(<<1, 2, 3, 4>>, <<9, 9, 9, 9>>)
    /\ Md5Named(extracted[2])

\* the "amiibo" list of the database db, empty when it has none
TableOf(db) ==
    IF db.kind = "object" /\ "amiibo" \in DOMAIN db.fields THEN db.fields["amiibo"] ELSE <<>>

\* entry i of the list L has the head h, the tail t
HeadIs(L, i, h) == "head" \in DOMAIN L[i] /\ L[i]["head"] = h
TailIs(L, i, t) == "tail" \in DOMAIN L[i] /\ L[i]["tail"] = t

\* the value v is taken from entry i of L by the tier how
TakenFrom(v, L, i, how) ==
    /\ v.method = how
    /\ "amiiboSeries" \in DOMAIN L[i] => v.series = L[i]["amiiboSeries"]
    /\ "type" \in DOMAIN L[i] => v.type = L[i]["type"]
    /\ "name" \in DOMAIN L[i] => v.name = L[i]["name"]

\* the value v is what the two tiers give for the key (h, t) in the list L
TwoTier(v, L, h, t) ==
    LET both == { i \in 1..Len(L) : HeadIs(L, i, h) /\ TailIs(L, i, t) }
        tails == { i \in 1..Len(L) : TailIs(L, i, t) }
    IN  IF both # {}
        THEN \E i \in both : (\A j \in both : i <= j) /\ TakenFrom(v, L, i, <<"database_head+tail">>)
        ELSE IF tails # {}
        THEN \E i \in tails : (\A j \in tails : i <= j) /\ TakenFrom(v, L, i, <<"database_tail">>)
        ELSE v.series = None /\ v.type = None /\ v.name = None

\* C12: for a key with head and tail, lookup_amiibo_data returns the first entry
\* of the table (in table order) whose head and tail both equal the key; only
\* when there is none, the first entry whose tail equals the key's tail; and no
\* name when there is neither.
C12_TwoTier ==
    (/\ result.fn = "lookup_amiibo_data"
     /\ Truthy(args.head_id)
     /\ Truthy(args.tail_id)
     /\ result.db.kind \in {"None", "object"}) =>
        TwoTier(result.value, TableOf(result.db), args.head_id, args.tail_id)

\* the key was looked up in the table whose first entry matches its tail only,
\* and the second entry, which matches head and tail, was returned
C12_Witness ==
    /\ result.fn = "lookup_amiibo_data"
    /\ args = [head_id |-> KeyHead, tail_id |-> KeyTail]
    /\ result.db = JsonObject(TailFirstTable)
    /\ result.value.name = <<"b", "o", "t", "h">>
    /\ result.value.method = <<"database_head+tail">>

\* the identity of the amiibo record e resolves to a series, a type and a name
Resolved(e) ==
    /\ e.file_type \in {1, 2}
    /\ Len(e.content) >= 92
    /\ \E i \in 89..92 : e.content[i] # 0
    /\ Truthy(LookedUp(e.content).series)
    /\ Truthy(LookedUp(e.content).type)
    /\ Truthy(LookedUp(e.content).name)

\* the file name of e is base with the extension ext (a counter before the
\* extension when that name was taken)
FileNamed(e, base, ext) ==
    \/ Name(e.path) = base \o ext
    \/ \E k \in 1..(MaxRecords + 1) : Name(e.path) = Numbered(base, k, ext)

\* e was written at sanitized(series)/sanitized(type)/sanitized(name), three
\* components below the output directory
ThreeParts(e, r, ext) ==
    /\ Len(e.path) = Len(OutputDir) + 3
    /\ IsPrefix(OutputDir, e.path)
    /\ e.path[Len(OutputDir) + 1] = sanitize_filename(r.series)
    /\ e.path[Len(OutputDir) + 2] = sanitize_filename(r.type)
    /\ FileNamed(e, sanitize_filename(r.name), ext)

\* C13: a record typed amiibo v2 or v3 whose identity resolves to (series, type,
\* name) is written at the relative path sanitized(series)/sanitized(type)/
\* sanitized(name), three components, with '.bin' appended to the file name
\* unless use_pro_names is set.
C13_ThreeComponents ==
    \A i \in 1..Len(extracted) :
        Resolved(extracted[i]) =>
            ThreeParts(extracted[i], LookedUp(extracted[i].content),
                       IF use_pro_names THEN <<>> ELSE <<".", "b", "i", "n">>)

\* the nine characters sanitize_filename replaces
Nine == {"<", ">", ":", "\"", "|", "?", "*", "/", "\\"}

\* the three steps applied to f, written over positions: every one of the nine
\* characters becomes '_', the text runs from the first to the last character
\* that is neither a space nor a dot, and at most 200 characters of it are kept
ThreeSteps(f) ==
    LET R == [i \in 1..Len(f) |-> IF f[i] \in Nine THEN "_" ELSE f[i]]
        solid == { i \in 1..Len(f) : R[i] \notin {" ", "."} }
        first == CHOOSE i \in solid : \A j \in solid : i <= j
        last == CHOOSE i \in solid : \A j \in solid : j <= i
        n == IF last - first + 1 > 200 THEN 200 ELSE last - first + 1
    IN  IF solid = {} THEN <<>> ELSE [i \in 1..n |-> R[first + i - 1]]

\* C14: sanitize_filename gives, for every string, the result of replacing each
\* of the characters < > : " | ? * / \ by '_', then stripping leading and
\* trailing spaces and dots, then keeping at most the first 200 characters; the
\* result holds none of the nine characters and is at most 200 characters long.
C14_Sanitize ==
    result.fn = "sanitize_filename" =>
        /\ result.value = ThreeSteps(args.filename)
        /\ \A i \in 1..Len(result.value) : result.value[i] \notin Nine
        /\ Len(result.value) <= 200

\* a name that starts with a space, holds replaced characters and is longer
\* than 200 characters after stripping was cut to 200
C14_Witness ==
    /\ result.fn = "sanitize_filename"
    /\ Len(args.filename) > 205
    /\ args.filename[1] = " "
    /\ \E i \in 1..Len(args.filename) : args.filename[i] \in Nine
    /\ Len(result.value) = 200
    /\ \E i \in 1..200 : result.value[i] = "_"

\* the path next to p that carries the counter k
Sibling(p, k) == Append(Parent(p), Numbered(Stem(p), k, Suffix(p)))

\* v is what the collision policy gives for the path p in the file system
\* (files, dirs): p when it does not exist, else the sibling with the smallest
\* counter k >= 1 that does not exist
Policy(v, p, files, dirs) ==
    IF ~Exists(p, files, dirs) THEN v = p
    ELSE \E k \in 1..(MaxRecords + 3) :
            /\ v = Sibling(p, k)
            /\ ~Exists(v, files, dirs)
            /\ \A j \in 1..(k - 1) : Exists(Sibling(p, j), files, dirs)

\* the first two records of the archive resolve to one name
SameIdentity ==
    /\ Len(extracted) >= 2
    /\ Resolved(extracted[1])
    /\ Resolved(extracted[2])
    /\ LookedUp(extracted[1].content) = LookedUp(extracted[2].content)

\* the first two records lie side by side as name and name (1), each with its
\* own content
SideBySide ==
    /\ Len(extracted[1].path) = Len(OutputDir) + 3
    /\ Name(extracted[1].path) =
            sanitize_filename(LookedUp(extracted[1].content).name)
                \o (IF use_pro_names THEN <<>> ELSE <<".", "b", "i", "n">>)
    /\ extracted[2].path = Sibling(extracted[1].path, 1)
    /\ out_files[extracted[1].path] = extracted[1].content
    /\ out_files[extracted[2].path] = extracted[2].content

\* C15: make_unique_filename returns the path unchanged when it does not exist,
\* and otherwise 'stem (k)suffix' in the same directory for the smallest k >= 1
\* for which that path does not exist; two records of one archive that resolve
\* to the same identity, decoded into an empty directory, are written as
\* 'name.bin' and 'name (1).bin', each holding its own content.
C15_CollisionPolicy ==
    /\ [][(result.fn = "none" /\ result'.fn = "make_unique_filename") =>
            Policy(result'.value, args.output_file, out_files, out_dirs)]_vars
    /\ []((out_before = NoFiles /\ SameIdentity) => SideBySide)

\* two records of one identity and different contents were decoded into an
\* empty directory, and the call for their name returned the counter 2
C15_Witness ==
    /\ dec = "done"
    /\ out_before = NoFiles
    /\ SameIdentity
    /\ extracted[1].content # extracted[2].content
    /\ result.fn = "make_unique_filename"
    /\ args.output_file = PathAB
    /\ result.value = Sibling(PathAB, 2)

\* C16: when the database is missing, unreadable, not valid JSON, or valid
\* JSON of an unexpected shape, decode still succeeds and every amiibo-typed
\* record is written under its MD5 fallback name.
C16_UnavailableNeverAborts ==
    (db_file \in UnavailableDbs /\ dec \in {"done", "error"}) =>
        /\ dec = "done"
        /\ \A i \in 1..Len(extracted) :
              extracted[i].file_type \in {FILE_TYPE_AMIIBO_V2, FILE_TYPE_AMIIBO_V3} =>
                  Md5Named(extracted[i])

\* the database file whose one entry lacks the field k
Lacking(k) ==
    DbObject([amiibo |-> << DbEntry(KeyHead, KeyTail, <<"S">>, <<"T">>, <<"N">>, {k}) >>])

\* the record e is typed amiibo and carries the tail 05060708
TailKeyed(e) ==
    /\ e.file_type \in {FILE_TYPE_AMIIBO_V2, FILE_TYPE_AMIIBO_V3}
    /\ Len(e.content) >= 92
    /\ SubSeq(e.content, 89, 92) = <<5, 6, 7, 8>>

\* the record e lies at series/type/name below the output directory
LiesAt(e, series, type, name) ==
    /\ Len(e.path) = Len(OutputDir) + 3
    /\ SubSeq(e.path, 1, Len(OutputDir) + 2) = OutputDir \o <<series, type>>
    /\ FileNamed(e, name, IF use_pro_names THEN <<>> ELSE <<".", "b", "i", "n">>)
    /\ e.path \in DOMAIN out_files
    /\ out_files[e.path] = e.content

\* the original wording of C17: with a database in which an entry lacks one of
\* head, tail, amiiboSeries, type or name, every record is named by the MD5
\* fallback.
C17_LackingIsUnavailable ==
    \A k \in {"head", "tail", "amiiboSeries", "type", "name"} :
        db_file = Lacking(k) => \A i \in 1..Len(extracted) : Md5Named(extracted[i])

\* C17: a database in which an entry lacks a field is still searched.  An entry
\* lacking amiiboSeries, type or name is found as usual and the missing field
\* reads 'Unknown'; an entry lacking head is found by its tail; an entry lacking
\* tail is never found, and only then are the records named by the MD5 fallback.
C17_LackingFieldDefaults ==
    \A k \in {"head", "tail", "amiiboSeries", "type", "name"} :
        db_file = Lacking(k) =>
            \A i \in 1..Len(extracted) :
                IF k # "tail" /\ TailKeyed(extracted[i])
                THEN LiesAt(extracted[i],
                            IF k = "amiiboSeries" THEN Unknown ELSE <<"S">>,
                            IF k = "type" THEN Unknown ELSE <<"T">>,
                            IF k = "name" THEN Unknown ELSE <<"N">>)
                ELSE Md5Named(extracted[i])

\* a record was written under the name 'Unknown' from an entry without a name,
\* and one was found by its tail in an entry without a head
C17_Witness ==
    /\ dec = "done"
    /\ Len(extracted) = 2
    /\ \/ /\ db_file = Lacking("name")
          /\ Name(extracted[1].path) = Unknown \o <<".", "b", "i", "n">>
          /\ Name(extracted[2].path) = Md5Hex(extracted[2].content)
       \/ /\ db_file = Lacking("head")
          /\ Name(extracted[1].path) = <<"N", ".", "b", "i", "n">>
          /\ Name(extracted[2].path) = <<"N", " ", "(", "1", ")", ".", "b", "i", "n">>

\* the step is a call that loaded the database: load_amiibo_database itself,
\* or lookup_amiibo_data with a head and a tail
LoadStep ==
    /\ Calls' = Calls + 1
    /\ \/ result'.fn = "load_amiibo_database"
       \/ /\ result'.fn = "lookup_amiibo_data"
          /\ Truthy(args.head_id)
          /\ Truthy(args.tail_id)

\* what the load of that step returned
LoadedValue == IF result.fn = "load_amiibo_database" THEN result.value ELSE result.db

\* what reading the database file yields now
FileValue == IF Parses(db_file) THEN Parsed(db_file) ELSE JsonNone

\* C18: without an explicit path the database is loaded at most once per
\* process: the first load attempt, successful or not, reads the file, and every
\* later default load returns the cached result without reading any file, even
\* when the file was created or changed since.  With an explicit path the file
\* is read on every call, the cached result is not returned, and the cache
\* variables are left unchanged.
C18_LoadedOnce ==
    [][LoadStep =>
        IF result'.custom
        THEN /\ LoadedValue' = FileValue
             /\ UNCHANGED <<db_cache, db_attempted>>
        ELSE IF db_attempted
        THEN /\ LoadedValue' = db_cache
             /\ UNCHANGED <<db_cache, db_attempted>>
        ELSE /\ LoadedValue' = FileValue
             /\ db_cache' = FileValue
             /\ db_attempted']_vars

\* the third call is a default load made after an earlier attempt; the database
\* file holds the benign table by now, and the call still returned nothing
C18_Witness ==
    /\ result.fn = "load_amiibo_database"
    /\ ~result.custom
    /\ result.seq = 3
    /\ db_attempted
    /\ result.file = DbObject(DbTable)
    /\ db_file = result.file
    /\ result.value = JsonNone
    /\ db_cache = JsonNone

\* the files a recursive walk of the directories ds finds, hidden ones left out
Found(ds) ==
    { p \in DOMAIN tree :
        /\ \E i \in 1..Len(ds) : p[1] = ds[i][1]
        /\ \A j \in 1..Len(p) : Head(p[j]) # "." }

\* an argument names a path that does not exist or is of the wrong kind
BadPath(fs, ds) ==
    \/ \E i \in 1..Len(fs) : TreePath(fs[i]) \notin DOMAIN tree
    \/ \E i \in 1..Len(ds) : ds[i] \notin TreeDirs

\* the set of input files collected from the files fs and the directories ds
InputSet(fs, ds) == { TreePath(fs[i]) : i \in 1..Len(fs) } \cup Found(ds)

\* C19: both encode entry points fail with an input error when a supplied
\* input path does not exist or is of the wrong kind, and also when the
\* collected set of input files is empty.
C19_InputErrors ==
    /\ (enc \in {"done", "error"} /\ (BadPath(<<>>, args.input_dirs) \/ InputSet(<<>>, args.input_dirs) = {}))
            => enc = "error"
    /\ (result.fn = "encode_fca_from_sources"
            /\ (BadPath(args.input_files, args.input_dirs)
                    \/ InputSet(args.input_files, args.input_dirs) = {}))
            => result.exc # "none"

\* C20: for every list of input directories, encode_fca_from_sources(input_dirs
\* = dirs) and encode_fca(dirs) either both fail or both write byte-identical
\* archives (whose decodings then yield the same output file names).
C20_ToolParity ==
    (args.input_files = <<>> /\ enc \in {"done", "error"}
            /\ result.fn = "encode_fca_from_sources") =>
        \/ enc = "error" /\ result.exc # "none"
        \/ enc = "done" /\ result.exc = "none" /\ archive = result.archive

RECURSIVE JoinParts(_)
\* the parts of a relative path joined by '/'
JoinParts(p) ==
    IF p = <<>> THEN <<>>
    ELSE IF Len(p) = 1 THEN p[1]
    ELSE p[1] \o <<"/">> \o JoinParts(Tail(p))

\* the string t occurs in the string u
Occurs(t, u) == \E i \in 0..(Len(u) - Len(t)) : SubSeq(u, i + 1, i + Len(t)) = t

\* the files of Found(ds) whose path relative to their input directory does not
\* contain the pattern, in the order of their paths
KeptSorted(ds, pattern) ==
    SortFiles(CHOOSE f \in Orders({ p \in Found(ds) : ~Occurs(pattern, JoinParts(Tail(p))) }) : TRUE)

\* C21: encode_fca called with exclude_pattern leaves out of the archive every
\* file whose path relative to its input directory contains the pattern, and
\* includes every other eligible file.
C21_ExcludePattern ==
    (entry = "encode_fca(exclude_pattern)" /\ args.input_dirs \in { << <<<<"d">>>> >> }) =>
        /\ enc = "done"
        /\ archive = EncodeArchive(KeptSorted(args.input_dirs, args.exclude_pattern), tree)

\* the file p of the input tree lies below the directory d
Below_(d, p) == Len(p) > Len(d) /\ SubSeq(p, 1, Len(d)) = d

\* the file p below d is hidden: its name starts with '.', or the name of a
\* subdirectory between d and it does
HiddenBelow(d, p) ==
    \/ Head(p[Len(p)]) = "."
    \/ \E j \in (Len(d) + 1)..(Len(p) - 1) : Head(p[j]) = "."

\* the files a walk of d is to include
Visible(d) == { p \in DOMAIN tree : Below_(d, p) /\ ~HiddenBelow(d, p) }

\* the files of the set S in the order of their paths
InOrder(S) == SortFiles(CHOOSE f \in Orders(S) : TRUE)

\* the walks of the directories ds one after the other, then sorted
WalkedSorted(ds) == SortFiles(Concat([i \in 1..Len(ds) |-> InOrder(Visible(ds[i]))]))

\* C22: hidden entries are excluded from directory walks: no file whose name
\* starts with '.' and no file under a subdirectory whose name starts with '.',
\* at any depth below the input directory, is in the archive, and every other
\* regular file under the input directory is.
C22_HiddenExcluded ==
    /\ enc = "done" => archive = EncodeArchive(WalkedSorted(args.input_dirs), tree)
    /\ (result.fn = "encode_fca_from_sources" /\ result.exc = "none"
            /\ args.input_files = <<>>) =>
          result.archive =
            EncodeArchive(InOrder(UNION { Visible(args.input_dirs[i]) :
                                            i \in 1..Len(args.input_dirs) }), tree)

\* both entry points walked d, which holds d/s/a and d/s/.t/a, and wrote an
\* archive with the one record of d/s/a
C22_Witness ==
    /\ enc = "done"
    /\ result.fn = "encode_fca_from_sources"
    /\ args.input_files = <<>>
    /\ args.input_dirs = << <<<<"d">>>> >>
    /\ DOMAIN tree = { << <<"d">>, <<"s">>, <<"a">> >>, << <<"d">>, <<"s">>, <<".", "t">>, <<"a">> >> }
    /\ archive = GlobalHeader \o EncodeRecord(tree[<< <<"d">>, <<"s">>, <<"a">> >>])
    /\ result.archive = archive

\* the errors raised on a malformed archive
FormatErrors ==
    { "ValueError: Invalid FCA file", "struct.error",
      "ValueError: Unexpected EOF while reading header",
      "ValueError: Unexpected EOF while reading embedded file",
      "ValueError: read length must be non-negative or -1" }

\* the records extracted are those the archive holds one after the other from
\* offset 4, each written whole and still on disk
WrittenWhole ==
    /\ \A i \in 1..Len(extracted) :
          /\ extracted[i].start = (IF i = 1 THEN 4 ELSE extracted[i - 1].next)
          /\ extracted[i].total_size - 2 - extracted[i].header_size >= 0 =>
                Len(extracted[i].content)
                    = extracted[i].total_size - 2 - extracted[i].header_size
          /\ extracted[i].path \in DOMAIN out_files
          /\ out_files[extracted[i].path] = extracted[i].content
    /\ \A p \in DOMAIN out_before : p \in DOMAIN out_files /\ out_files[p] = out_before[p]

\* nothing else was written
NothingElse ==
    /\ DOMAIN out_files =
            DOMAIN out_before \cup { extracted[i].path : i \in 1..Len(extracted) }
    /\ Cardinality(DOMAIN out_files) = Cardinality(DOMAIN out_before) + Len(extracted)
    /\ file_count = Len(extracted)

\* C23: no rollback on decode failure: when decode fails with a format error at
\* record k, the files of records 1..k-1 have been written with their complete
\* contents and remain on disk, and nothing is written for record k or any
\* later record.
C23_NoRollback ==
    /\ []((dec = "error" /\ err \in FormatErrors) => (WrittenWhole /\ NothingElse))
    /\ [][(dec = "loop" /\ dec' = "error" /\ err' \in FormatErrors) =>
            (out_files' = out_files /\ out_dirs' = out_dirs /\ extracted' = extracted
                /\ pos' >= EofPos)]_vars

\* decode failed in the header of the second record; the first record's file
\* lies next to the file that was there before
C23_Witness ==
    /\ dec = "error"
    /\ err = "ValueError: Unexpected EOF while reading header"
    /\ Len(extracted) = 1
    /\ out_before # NoFiles
    /\ Cardinality(DOMAIN out_files) = 2

\* the record e carries a header decode interprets
Interpreted(e) == version = 1 /\ e.header_size = 2

\* the record e is framed by its size fields: its header bytes follow the six
\* bytes of the two fields, its content is what follows them up to 4 +
\* total_size bytes from the record's start, and the next record starts there
FramedBySizes(e) ==
    /\ UnpackU32(SubSeq(archive, e.start + 1, e.start + 4)) = e.total_size
    /\ UnpackU16(SubSeq(archive, e.start + 5, e.start + 6)) = e.header_size
    /\ e.next = e.start + 4 + e.total_size
    /\ e.content = SubSeq(archive, e.start + 6 + e.header_size + 1, e.next)

\* C24: decode takes the file type from the header only when version == 1 and
\* header_size == 2; in an archive with another version byte, and for a record
\* with header_size != 2 (0 included), the record is still framed by
\* total_size/header_size, its header bytes are skipped uninterpreted, its type
\* is Unknown and it is written under its MD5 name.
C24_HeaderOnlyV1Size2 ==
    \A i \in 1..Len(extracted) :
        IF Interpreted(extracted[i])
        THEN /\ extracted[i].typed
             /\ extracted[i].file_type = archive[extracted[i].start + 7]
        ELSE /\ ~extracted[i].typed
             /\ extracted[i].file_type = FILE_TYPE_UNKNOWN
             /\ FramedBySizes(extracted[i])
             /\ Md5Named(extracted[i])

\* the round of the record loop that starts here ends the call or moves the
\* read position forward within the file
Advances ==
    LET n == DecodeLoopStep(Frame, archive, use_pro_names, database_file, db_file)
    IN  \/ n.dec \in {"done", "error"}
        \/ n.dec = "loop" /\ pos < n.pos /\ n.pos <= Len(archive)

\* the path the record written by this step was to have, before
\* make_unique_filename
WantedPath ==
    LET e == extracted'[Len(extracted')]
        n == OutputName(e.file_type, e.content, use_pro_names, database_file, db_file,
                        db_cache, db_attempted)
    IN  PathJoin(OutputDir \o n.subdir, n.filename)

\* the collision loop of this step ended within as many rounds as there were
\* files and directories
CounterBounded ==
    \/ extracted'[Len(extracted')].path = WantedPath
    \/ \E k \in 1..(Cardinality(DOMAIN out_files) + Cardinality(out_dirs')) :
            extracted'[Len(extracted')].path = Sibling(WantedPath, k)

\* C25: decode terminates on every finite input: for any byte sequence and any
\* finite content of the output directory decode_fca eventually returns at the
\* end of the archive or raises an error; every round of the record loop moves
\* the read position forward within the file, and the collision-counter loop
\* ends within as many rounds as the output directory holds entries.
C25_Terminates ==
    /\ <>(dec \in {"done", "error"})
    /\ [](dec = "loop" => Advances)
    /\ [][Len(extracted') > Len(extracted) => CounterBounded]_vars

\* decode returned after two records of the content b'X' whose checksum name
\* was taken: the second went through two rounds of the collision loop
C25_Witness ==
    /\ dec = "done"
    /\ Len(extracted) = 2
    /\ out_before # NoFiles
    /\ Name(extracted[2].path) = Numbered(Md5Hex(<<88>>), 2, <<>>)

\* every file that existed before this step is unchanged after it
KeepsFiles == \A p \in DOMAIN out_files : p \in DOMAIN out_files' /\ out_files'[p] = out_files[p]

\* this step wrote one record, to a path that was neither a file nor a
\* directory when it was written, and counted it
WroteFresh ==
    LET e == extracted'[Len(extracted')]
    IN  /\ Len(extracted') = Len(extracted) + 1
        /\ ~Exists(e.path, out_files, out_dirs')
        /\ DOMAIN out_files' = DOMAIN out_files \cup {e.path}
        /\ out_files'[e.path] = e.content
        /\ file_count' = file_count + 1

\* C26: decode never overwrites: for any archive and any initial content of the
\* output directory, every file that existed before decode is unchanged
\* afterwards, each extracted record is written to a path that did not exist at
\* the moment of writing, and the number of files newly created equals the
\* extracted-record count that decode reports.
C26_NeverOverwrites ==
    /\ [][KeepsFiles /\ (out_files' # out_files => WroteFresh)]_vars
    /\ [](dec = "done" =>
            /\ \A p \in DOMAIN out_before :
                    p \in DOMAIN out_files /\ out_files[p] = out_before[p]
            /\ Cardinality(DOMAIN out_files \ DOMAIN out_before) = file_count)

\* two records of one identity were decoded into a directory that held their
\* name and its first sibling; they lie at the counters 2 and 3
C26_Witness ==
    /\ dec = "done"
    /\ PathAB \in DOMAIN out_before
    /\ Sibling(PathAB, 1) \in DOMAIN out_before
    /\ file_count = 2
    /\ Sibling(PathAB, 2) \in DOMAIN out_files
    /\ Sibling(PathAB, 3) \in DOMAIN out_files
    /\ out_files[PathAB] = out_before[PathAB]

\* the path p lies inside the output directory: below it, with no component
\* that leads up
Inside(p) ==
    /\ IsPrefix(OutputDir, p)
    /\ \A i \in (Len(OutputDir) + 1)..Len(p) : p[i] \notin {<<".">>, <<".", ".">>}

\* C27: output containment: for every archive and every database content,
\* every file and every directory decode creates lies inside the given output
\* directory.
C27_OutputContained ==
    /\ \A p \in DOMAIN out_files \ DOMAIN out_before : Inside(p) /\ p # OutputDir
    /\ \A d \in out_dirs : Inside(d)

\* the text v neither begins nor ends with a space or a dot
Trimmed(v) == v = <<>> \/ (v[1] \notin {" ", "."} /\ v[Len(v)] \notin {" ", "."})

\* C28: for every input string, the result of sanitize_filename neither begins
\* nor ends with a space or a dot, and sanitizing the result returns it
\* unchanged, inputs longer than 200 characters included.
C28_SanitizeIdempotent ==
    result.fn = "sanitize_filename" =>
        /\ Trimmed(result.value)
        /\ sanitize_filename(result.value) = result.value

\* C29: encode leaves the output file untouched on input errors: when
\* encode_fca or encode_fca_from_sources raises because an input path is
\* missing or of the wrong kind, or encode_fca_from_sources because no input
\* file was collected, the output file has not been created, and a file that
\* was at the output path keeps its content.
C29_OutputUntouched ==
    /\ (entry = "encode_fca" /\ enc = "error") => archive = args.output_before
    /\ (result.fn = "encode_fca_from_sources" /\ result.exc # "none") =>
            /\ result.exc \in {"Input file does not exist", "Input path is not a directory",
                               "At least one input file is required"}
            /\ result.archive = args.output_before

\* both entry points raised on a path that is no directory, with a file at the
\* output path
C29_Witness ==
    /\ entry = "encode_fca"
    /\ enc = "error"
    /\ result.fn = "encode_fca_from_sources"
    /\ result.exc = "Input path is not a directory"
    /\ args.output_before = <<9>>
    /\ archive = <<9>>

\* the archive encode_fca_from_sources writes for the files of the set S, given
\* as explicit files by their paths below the working directory, in path order
WrittenFor(S) == encode_fca_from_sources(InOrder(S), <<>>, tree).archives

\* C30: encode is independent of the order and multiplicity in which inputs
\* are supplied: a call of encode_fca_from_sources writes the archive that the
\* call naming the same set of files once each, in path order, writes,
\* whatever the order, the repetitions and the spellings of its arguments, and
\* each distinct file is in it exactly once.
C30_OrderIndependent ==
    (result.fn = "encode_fca_from_sources" /\ result.exc = "none") =>
        /\ WrittenFor(InputSet(args.input_files, args.input_dirs)) = {result.archive}
        /\ \E f \in Orders(InputSet(args.input_files, args.input_dirs)) :
                result.archive = EncodeArchive(f, tree)

=============================================================================
